---------------------------- MODULE Spec2Model ----------------------------
(***************************************************************************)
(* A model of the PSI section engine (data_psi.go) and of the demuxer loop *)
(* (Demuxer.NextData / updateData) of go-astits.                           *)
(*                                                                         *)
(* Conventions                                                             *)
(*  - a byte slice is a sequence of naturals 0..255; a BytesIterator is a  *)
(*    pair (bs, off) with off the 0-based offset, so the byte at the       *)
(*    cursor is bs[off + 1];                                               *)
(*  - a uint32 is a pair <<hi, lo>> of its two 16-bit halves (TLC's        *)
(*    integers are 32-bit signed, 0xFFFFFFFF does not fit);                *)
(*  - a Go error is a record [kind, a, b]; NoErr is the nil error;         *)
(*  - a nil pointer is a record whose isNil field is TRUE.                 *)
(***************************************************************************)
EXTENDS Integers, Sequences, FiniteSets, TLC

VARIABLES
    \* ---- the function harness (specification SpecFn)
    fn,          \* the function under call
    arg,         \* its input
    res,         \* its result, once pc = "done"
    pc,          \* "call" before the function is applied, "done" after
    \* ---- parsing and serialising back (specification SpecSer)
    buf,         \* the bytes now in the buffer that was parsed
    out,         \* what the last Serialise call returned and wrote
    \* ---- the demuxer (specification Spec)
    stream,      \* the packets the reader will deliver, in order
    pos,         \* number of packets already fetched from the packet buffer
    packetPool,  \* PID -> packets accumulating for that PID
    dataBuffer,  \* Demuxer.dataBuffer
    programMap,  \* Demuxer.programMap: PID -> program number
    panicked,    \* TRUE once a call has hit a nil pointer dereference
    ctxErr,      \* Demuxer.ctx.Err(): NoErr until the context is done
    ret,         \* what the last NextData call returned (d, err)
    optPacketsParser, \* Demuxer.optPacketsParser: nil unless New was given one
    trace        \* observation of the last NextData call and of all results

fnVars  == <<fn, arg, res, pc>>
serVars == <<buf, out>>
dmxVars == <<stream, pos, packetPool, dataBuffer, programMap, panicked, ctxErr, ret,
             optPacketsParser, trace>>
vars    == <<fn, arg, res, pc, buf, out, stream, pos, packetPool, dataBuffer,
             programMap, panicked, ctxErr, ret, optPacketsParser, trace>>

---------------------------------------------------------------------------
(* Bytes, uint32 and errors                                                *)

U32(hi, lo) == <<hi, lo>>

U32Zero == U32(0, 0)

NoErr == [kind |-> "nil", a |-> U32Zero, b |-> U32Zero]

Err(kind) == [kind |-> kind, a |-> U32Zero, b |-> U32Zero]

\* fmt.Errorf("astits: Table CRC32 %x != computed CRC32 %x", s.CRC32, crc32):
\* a is the first value the message names, b the second
ErrCRC32(first, second) == [kind |-> "CRC32Mismatch", a |-> first, b |-> second]

RECURSIVE BitXor(_, _)
BitXor(x, y) ==
    IF x = 0 THEN y
    ELSE IF y = 0 THEN x
    ELSE (((x % 2) + (y % 2)) % 2) + 2 * BitXor(x \div 2, y \div 2)

RECURSIVE BitAnd(_, _)
BitAnd(x, y) ==
    IF x = 0 \/ y = 0 THEN 0
    ELSE ((x % 2) * (y % 2)) + 2 * BitAnd(x \div 2, y \div 2)

\* i.NextBytes(n) / i.NextByte() succeed iff len(bs) >= offset + n
HasBytes(bs, off, n) == Len(bs) >= off + n

\* the n bytes at offset off
Bytes(bs, off, n) == SubSeq(bs, off + 1, off + n)

\* i.HasBytesLeft()
HasBytesLeft(bs, off) == off < Len(bs)

\* uint16(b0)<<8 | uint16(b1)
U16(b0, b1) == b0 * 256 + b1

\* the four bytes of a uint32, most significant first
U32Bytes(c) == <<c[1] \div 256, c[1] % 256, c[2] \div 256, c[2] % 256>>

---------------------------------------------------------------------------
(* computeCRC32, data_psi.go:185-198                                       *)

CRC32PolyHi == \h04C1
CRC32PolyLo == \h1DB7
CRC32InitHalf == \hFFFF

\* o << 1 on a uint32
Shl32(o) == U32((o[1] * 2 + o[2] \div 32768) % 65536, (o[2] * 2) % 65536)

\* ^ on 4-bit values, as a table
XorNibble == [a \in 0..15 |-> [b \in 0..15 |-> BitXor(a, b)]]

\* ^ on 16-bit values, nibble by nibble
Xor16(x, y) ==
    XorNibble[x % 16][y % 16]
    + 16 * XorNibble[(x \div 16) % 16][(y \div 16) % 16]
    + 256 * XorNibble[(x \div 256) % 16][(y \div 256) % 16]
    + 4096 * XorNibble[x \div 4096][y \div 4096]

Xor32(o, p) == U32(Xor16(o[1], p[1]), Xor16(o[2], p[2]))

\* a register update that looks at the register's top bit only
crcStepTopBitOnly(o, b) ==
    <<IF o[1] >= 32768
      THEN Xor32(Shl32(o), U32(CRC32PolyHi, CRC32PolyLo))
      ELSE Shl32(o),
      (b * 2) % 256>>

\* one turn of the inner loop: returns <<o, b>>
crcStep(o, b) ==
    LET o1 == IF (o[1] >= 32768) # (b >= 128)
              THEN Xor32(Shl32(o), U32(CRC32PolyHi, CRC32PolyLo))
              ELSE Shl32(o)
    IN  <<o1, (b * 2) % 256>>

RECURSIVE crcByte(_, _, _)
crcByte(o, b, i) ==
    IF i = 8 THEN o
    ELSE LET s == crcStep(o, b) IN crcByte(s[1], s[2], i + 1)

\* the outer loop; the register is evaluated at each byte before the next
\* one is taken (o1[1] is never negative), which keeps TLC's evaluation flat
RECURSIVE crcLoop(_, _, _)
crcLoop(o, bs, k) ==
    IF k > Len(bs) THEN o
    ELSE LET o1 == crcByte(o, bs[k], 0)
         IN  IF o1[1] < 0 THEN o1 ELSE crcLoop(o1, bs, k + 1)

computeCRC32(bs) ==
    [o |-> crcLoop(U32(CRC32InitHalf, CRC32InitHalf), bs, 1), err |-> NoErr]

\* parseCRC32, data_psi.go:173-181
parseCRC32(bs, off) ==
    IF ~HasBytes(bs, off, 4)
    THEN [err |-> Err("ShortRead"), c |-> U32Zero, off |-> off]
    ELSE [err |-> NoErr,
          c   |-> U32(U16(bs[off + 1], bs[off + 2]), U16(bs[off + 3], bs[off + 4])),
          off |-> off + 4]

---------------------------------------------------------------------------
(* Table types, data_psi.go:200-203, 255-298, 321-328                      *)

\* a classification without the second SDT table ID (0x46)
psiTableTypeOneSDT(tableID) ==
    CASE tableID = \h4A -> "BAT"
      [] tableID >= \h4E /\ tableID <= \h6F -> "EIT"
      [] tableID = \h7E -> "DIT"
      [] tableID = \h40 \/ tableID = \h41 -> "NIT"
      [] tableID = \hFF -> "Null"
      [] tableID = 0 -> "PAT"
      [] tableID = 2 -> "PMT"
      [] tableID = \h71 -> "RST"
      [] tableID = \h42 -> "SDT"
      [] tableID = \h7F -> "SIT"
      [] tableID = \h72 -> "ST"
      [] tableID = \h70 -> "TDT"
      [] tableID = \h73 -> "TOT"
      [] OTHER -> "Unknown"

psiTableType(tableID) ==
    CASE tableID = \h4A -> "BAT"
      [] tableID >= \h4E /\ tableID <= \h6F -> "EIT"
      [] tableID = \h7E -> "DIT"
      [] tableID = \h40 \/ tableID = \h41 -> "NIT"
      [] tableID = \hFF -> "Null"
      [] tableID = 0 -> "PAT"
      [] tableID = 2 -> "PMT"
      [] tableID = \h71 -> "RST"
      [] tableID = \h42 \/ tableID = \h46 -> "SDT"
      [] tableID = \h7F -> "SIT"
      [] tableID = \h72 -> "ST"
      [] tableID = \h70 -> "TDT"
      [] tableID = \h73 -> "TOT"
      [] OTHER -> "Unknown"

\* a stop rule that knows the Null table type only
shouldStopOnNull(tableType) == tableType = "Null"

shouldStopPSIParsing(tableType) == tableType = "Null" \/ tableType = "Unknown"

hasCRC32(tableType) == tableType \in {"PAT", "PMT", "EIT", "NIT", "TOT", "SDT"}

hasPSISyntaxHeader(tableType) == tableType \in {"EIT", "NIT", "PAT", "PMT", "SDT"}

---------------------------------------------------------------------------
(* Section header and syntax header, data_psi.go:205-253, 330-376.         *)
(* An intermediate result that the code keeps in a local variable is       *)
(* passed to a continuation operator as a parameter.                       *)

NilHeader == [TableID |-> 0, TableType |-> "", SectionSyntaxIndicator |-> FALSE,
              PrivateBit |-> FALSE, SectionLength |-> 0]

\* the six results of parsePSISectionHeader and the cursor it leaves
HeaderResult(err, h, off, offsetStart, offsetSectionsStart, offsetSectionsEnd, offsetEnd) ==
    [err |-> err, h |-> h, off |-> off, offsetStart |-> offsetStart,
     offsetSectionsStart |-> offsetSectionsStart,
     offsetSectionsEnd |-> offsetSectionsEnd, offsetEnd |-> offsetEnd]

\* offsets that leave no room for a CRC32
headerOffsetsNoCRC32(off, h0, b0, b1, sectionLength) ==
    HeaderResult(NoErr,
                 [h0 EXCEPT !.SectionSyntaxIndicator = (b0 \div 128) % 2 = 1,
                            !.PrivateBit = (b0 \div 64) % 2 = 1,
                            !.SectionLength = sectionLength],
                 off + 3, off, off + 3, off + 3 + sectionLength, off + 3 + sectionLength)

\* data_psi.go:236-252: flags, section length and offsets from the two bytes
\* b0, b1 that follow the table ID
headerOffsets(off, h0, b0, b1, sectionLength) ==
    HeaderResult(NoErr,
                 [h0 EXCEPT !.SectionSyntaxIndicator = (b0 \div 128) % 2 = 1,
                            !.PrivateBit = (b0 \div 64) % 2 = 1,
                            !.SectionLength = sectionLength],
                 off + 3, off, off + 3,
                 IF hasCRC32(h0.TableType) THEN off + 3 + sectionLength - 4
                                           ELSE off + 3 + sectionLength,
                 off + 3 + sectionLength)

\* data_psi.go:224-252, with h0 the header holding table ID and table type
headerAfterTableID(bs, off, h0) ==
    IF shouldStopPSIParsing(h0.TableType)
    THEN HeaderResult(NoErr, h0, off + 1, off, 0, 0, 0)
    ELSE IF ~HasBytes(bs, off + 1, 2)
    THEN HeaderResult(Err("ShortRead"), h0, off + 1, off, 0, 0, 0)
    ELSE headerOffsets(off, h0, bs[off + 2], bs[off + 3],
                       (bs[off + 2] % 16) * 256 + bs[off + 3])

\* data_psi.go:206-253
parsePSISectionHeader(bs, off) ==
    IF ~HasBytes(bs, off, 1)
    THEN HeaderResult(Err("ShortRead"), NilHeader, off, off, 0, 0, 0)
    ELSE headerAfterTableID(bs, off,
            [NilHeader EXCEPT !.TableID = bs[off + 1],
                              !.TableType = psiTableType(bs[off + 1])])

NilSyntaxHeader == [isNil |-> TRUE, TableIDExtension |-> 0, VersionNumber |-> 0,
                    CurrentNextIndicator |-> FALSE, SectionNumber |-> 0,
                    LastSectionNumber |-> 0]

\* data_psi.go:331-376
parsePSISectionSyntaxHeader(bs, off) ==
    IF ~HasBytes(bs, off, 5)
    THEN [err |-> Err("ShortRead"), h |-> NilSyntaxHeader, off |-> off]
    ELSE [err |-> NoErr,
          h   |-> [isNil |-> FALSE,
                   TableIDExtension |-> U16(bs[off + 1], bs[off + 2]),
                   VersionNumber |-> (bs[off + 3] % 64) \div 2,
                   CurrentNextIndicator |-> bs[off + 3] % 2 = 1,
                   SectionNumber |-> bs[off + 4],
                   LastSectionNumber |-> bs[off + 5]],
          off |-> off + 5]

---------------------------------------------------------------------------
(* The descriptor engine, descriptor.go.  A decoder is modelled by what it *)
(* does to the cursor: which reads it makes, in which order, and which of  *)
(* them fails; the fields it decodes are kept only where a property reads  *)
(* them.  A call that never returns is modelled as the result Diverges,    *)
(* which every caller hands up like an error.                              *)

Diverges == Err("Diverges")

\* a BytesIterator's state after a run of reads
Cursor(err, off) == [err |-> err, off |-> off]

\* i.NextBytes(n) / i.NextByte(): a failed read leaves the offset alone
NextBytes(bs, c, n) ==
    IF c.err # NoErr THEN c
    ELSE IF HasBytes(bs, c.off, n) THEN Cursor(NoErr, c.off + n)
    ELSE Cursor(Err("ShortRead"), c.off)

\* the byte a successful NextByte at cursor c returns
ByteAt(bs, c) == IF c.err = NoErr /\ HasBytes(bs, c.off, 1) THEN bs[c.off + 1] ELSE 0

\* b&m > 0 for a one-bit mask m
HasBit(b, m) == (b \div m) % 2 = 1

\* a run of reads of the given sizes, each checked in turn
RECURSIVE NextEach(_, _, _)
NextEach(bs, c, sizes) ==
    IF sizes = <<>> \/ c.err # NoErr THEN c
    ELSE NextEach(bs, NextBytes(bs, c, Head(sizes)), Tail(sizes))

\* b, err = i.NextByte(); ..., err = i.NextBytes(int(b))
NextCounted(bs, c) == NextBytes(bs, NextBytes(bs, c, 1), ByteAt(bs, c))

\* if i.Offset() < offsetEnd { ..., err = i.NextBytes(offsetEnd - i.Offset()) }
NextToEnd(bs, c, offsetEnd) ==
    IF c.err = NoErr /\ c.off < offsetEnd THEN NextBytes(bs, c, offsetEnd - c.off) ELSE c

\* for i.Offset() < offsetEnd { an item of reads of the given sizes }
RECURSIVE itemLoop(_, _, _, _)
itemLoop(bs, c, offsetEnd, sizes) ==
    IF c.err # NoErr \/ c.off >= offsetEnd THEN c
    ELSE itemLoop(bs, NextEach(bs, c, sizes), offsetEnd, sizes)

\* one NextByte for each flag set in b, descriptor.go:149-176, 409-457
flagReads(b, masks) == [k \in 1..Len(SelectSeq(masks, LAMBDA m : HasBit(b, m))) |-> 1]

\* descriptor.go:136-185
newDescriptorAC3(bs, c, offsetEnd) ==
    NextToEnd(bs,
              NextEach(bs, NextBytes(bs, c, 1),
                       flagReads(ByteAt(bs, c), <<\h80, \h40, \h20, \h10>>)),
              offsetEnd)

\* descriptor.go:211-242
newDescriptorAVCVideo(bs, c) == NextEach(bs, c, <<1, 1, 1, 1>>)

\* descriptor.go:271-307
newDescriptorComponent(bs, c, offsetEnd) ==
    NextToEnd(bs, NextEach(bs, c, <<1, 1, 1, 3>>), offsetEnd)

\* descriptor.go:336-353
newDescriptorContent(bs, c, offsetEnd) == itemLoop(bs, c, offsetEnd, <<2>>)

\* descriptor.go:364-373
newDescriptorDataStreamAlignment(bs, c) == NextBytes(bs, c, 1)

\* descriptor.go:395-478
newDescriptorEnhancedAC3(bs, c, offsetEnd) ==
    NextToEnd(bs,
              NextEach(bs, NextBytes(bs, c, 1),
                       flagReads(ByteAt(bs, c),
                                 <<\h80, \h40, \h20, \h10, \h04, \h02, \h01>>)),
              offsetEnd)

\* descriptor.go:575-605
newDescriptorExtendedEventItem(bs, c) == NextCounted(bs, NextCounted(bs, c))

\* the item loop of newDescriptorExtendedEvent, descriptor.go:540-551
RECURSIVE extendedEventItems(_, _, _)
extendedEventItems(bs, c, offsetEnd) ==
    IF c.err # NoErr \/ c.off >= offsetEnd THEN c
    ELSE extendedEventItems(bs, newDescriptorExtendedEventItem(bs, c), offsetEnd)

\* descriptor.go:534-565, with c the cursor in front of the items length
extendedEventAfterLanguage(bs, c) ==
    NextCounted(bs,
        extendedEventItems(bs, NextBytes(bs, c, 1),
                           NextBytes(bs, c, 1).off + ByteAt(bs, c)))

\* descriptor.go:512-566
newDescriptorExtendedEvent(bs, c) ==
    extendedEventAfterLanguage(bs, NextEach(bs, c, <<1, 3>>))

\* descriptor.go:662-694
newDescriptorExtensionSupplementaryAudio(bs, c, offsetEnd) ==
    NextToEnd(bs,
              NextEach(bs, NextBytes(bs, c, 1),
                       IF HasBit(ByteAt(bs, c), \h01) THEN <<3>> ELSE <<>>),
              offsetEnd)

DescriptorTagExtensionSupplementaryAudio == \h06

\* descriptor.go:630-650, with c the cursor after the extension tag
extensionAfterTag(bs, tag, c, offsetEnd) ==
    IF c.err # NoErr THEN c
    ELSE IF tag = DescriptorTagExtensionSupplementaryAudio
    THEN newDescriptorExtensionSupplementaryAudio(bs, c, offsetEnd)
    ELSE NextBytes(bs, c, offsetEnd - c.off)

\* descriptor.go:620-652
newDescriptorExtension(bs, c, offsetEnd) ==
    extensionAfterTag(bs, ByteAt(bs, c), NextBytes(bs, c, 1), offsetEnd)

\* descriptor.go:703-718
newDescriptorISO639LanguageAndAudioType(bs, c, offsetEnd) ==
    NextBytes(bs, c, offsetEnd - c.off)

\* descriptor.go:736-776: country code, region and polarity, then
\* parseDVBDurationMinutes (2 bytes), parseDVBTime (5 bytes) and
\* parseDVBDurationMinutes again
newDescriptorLocalTimeOffset(bs, c, offsetEnd) ==
    itemLoop(bs, c, offsetEnd, <<3, 1, 2, 5, 2>>)

\* descriptor.go:793-802
newDescriptorMaximumBitrate(bs, c) == NextBytes(bs, c, 3)

\* descriptor.go:812-821
newDescriptorNetworkName(bs, c, offsetEnd) == NextBytes(bs, c, offsetEnd - c.off)

\* descriptor.go:846-863
newDescriptorParentalRating(bs, c, offsetEnd) == itemLoop(bs, c, offsetEnd, <<4>>)

\* descriptor.go:873-882
newDescriptorPrivateDataIndicator(bs, c) == NextBytes(bs, c, 4)

\* descriptor.go:891-900
newDescriptorPrivateDataSpecifier(bs, c) == NextBytes(bs, c, 4)

\* descriptor.go:911-927
newDescriptorRegistration(bs, c, offsetEnd) ==
    NextToEnd(bs, NextBytes(bs, c, 4), offsetEnd)

\* descriptor.go:940-975
newDescriptorService(bs, c) == NextCounted(bs, NextCounted(bs, NextBytes(bs, c, 1)))

\* descriptor.go:991-1026
newDescriptorShortEvent(bs, c) == NextCounted(bs, NextCounted(bs, NextBytes(bs, c, 3)))

\* descriptor.go:1038-1047
newDescriptorStreamIdentifier(bs, c) == NextBytes(bs, c, 1)

\* descriptor.go:1063-1104
newDescriptorSubtitling(bs, c, offsetEnd) == itemLoop(bs, c, offsetEnd, <<3, 1, 2, 2>>)

\* descriptor.go:1128-1161
newDescriptorTeletext(bs, c, offsetEnd) == itemLoop(bs, c, offsetEnd, <<3, 1, 1>>)

\* descriptor.go:1176-1187
newDescriptorUnknown(bs, c, length) == NextBytes(bs, c, length)

\* the data service IDs whose descriptor bytes newDescriptorVBIData reads
VBIDataServiceIDs == {\h01, \h02, \h04, \h05, \h06, \h07}

\* the inner loop of newDescriptorVBIData: for any other data service ID
\* the body reads nothing, the offset stays below offsetDataEnd and the loop
\* goes round for ever
RECURSIVE vbiDataDescriptors(_, _, _, _)
vbiDataDescriptors(bs, c, id, offsetDataEnd) ==
    IF c.err # NoErr \/ c.off >= offsetDataEnd THEN c
    ELSE IF id \in VBIDataServiceIDs
    THEN vbiDataDescriptors(bs, NextBytes(bs, c, 1), id, offsetDataEnd)
    ELSE Cursor(Diverges, c.off)

\* one service, with c the cursor after its ID and its length byte
vbiDataService(bs, c, id, length) ==
    IF c.err # NoErr THEN c ELSE vbiDataDescriptors(bs, c, id, c.off + length)

RECURSIVE newDescriptorVBIData(_, _, _)
newDescriptorVBIData(bs, c, offsetEnd) ==
    IF c.err # NoErr \/ c.off >= offsetEnd THEN c
    ELSE newDescriptorVBIData(bs,
            vbiDataService(bs, NextEach(bs, c, <<1, 1>>), ByteAt(bs, c),
                           ByteAt(bs, NextBytes(bs, c, 1))),
            offsetEnd)

\* the switch on the tag
decodeStandard(bs, tag, length, c, offsetDescriptorEnd) ==
    CASE tag = \h6A -> newDescriptorAC3(bs, c, offsetDescriptorEnd)
      [] tag = \h28 -> newDescriptorAVCVideo(bs, c)
      [] tag = \h50 -> newDescriptorComponent(bs, c, offsetDescriptorEnd)
      [] tag = \h54 -> newDescriptorContent(bs, c, offsetDescriptorEnd)
      [] tag = \h06 -> newDescriptorDataStreamAlignment(bs, c)
      [] tag = \h7A -> newDescriptorEnhancedAC3(bs, c, offsetDescriptorEnd)
      [] tag = \h4E -> newDescriptorExtendedEvent(bs, c)
      [] tag = \h7F -> newDescriptorExtension(bs, c, offsetDescriptorEnd)
      [] tag = \h0A -> newDescriptorISO639LanguageAndAudioType(bs, c, offsetDescriptorEnd)
      [] tag = \h58 -> newDescriptorLocalTimeOffset(bs, c, offsetDescriptorEnd)
      [] tag = \h0E -> newDescriptorMaximumBitrate(bs, c)
      [] tag = \h40 -> newDescriptorNetworkName(bs, c, offsetDescriptorEnd)
      [] tag = \h55 -> newDescriptorParentalRating(bs, c, offsetDescriptorEnd)
      [] tag = \h0F -> newDescriptorPrivateDataIndicator(bs, c)
      [] tag = \h5F -> newDescriptorPrivateDataSpecifier(bs, c)
      [] tag = \h05 -> newDescriptorRegistration(bs, c, offsetDescriptorEnd)
      [] tag = \h48 -> newDescriptorService(bs, c)
      [] tag = \h4D -> newDescriptorShortEvent(bs, c)
      [] tag = \h52 -> newDescriptorStreamIdentifier(bs, c)
      [] tag = \h59 -> newDescriptorSubtitling(bs, c, offsetDescriptorEnd)
      [] tag = \h56 -> newDescriptorTeletext(bs, c, offsetDescriptorEnd)
      [] tag = \h45 -> newDescriptorVBIData(bs, c, offsetDescriptorEnd)
      [] tag = \h46 -> newDescriptorTeletext(bs, c, offsetDescriptorEnd)
      [] OTHER -> newDescriptorUnknown(bs, c, length)

\* the decoder a descriptor is handed to: user defined tags are read as raw
\* bytes, the others go through the switch
decodeDescriptor(bs, tag, length, c, offsetDescriptorEnd) ==
    IF tag >= \h80 /\ tag <= \hFE THEN NextBytes(bs, c, length)
    ELSE decodeStandard(bs, tag, length, c, offsetDescriptorEnd)

\* a []byte field: its content when it was set and, when it is a sub-slice
\* of the parsed buffer (what NextBytes returns), the offset it shares the
\* buffer's memory from
NilSlice == [shared |-> FALSE, at |-> 0, bytes |-> <<>>]

\* a slice of the buffer itself
shareBytes(bs, off, n) == [shared |-> TRUE, at |-> off, bytes |-> Bytes(bs, off, n)]

\* an originalBytes that is the slice NextBytes has returned
aliasBytes(bs, off, n) == shareBytes(bs, off, n)

\* make([]byte, n) and copy
copyBytes(bs, off, n) == [shared |-> FALSE, at |-> 0, bytes |-> Bytes(bs, off, n)]

\* what a []byte field reads as once the parsed buffer holds mem
SliceBytes(mem, s) == IF s.shared THEN Bytes(mem, s.at, Len(s.bytes)) ELSE s.bytes

\* Descriptor: tag, length, the retained body and, of the decoded variants,
\* the raw bytes of a user defined descriptor
Descriptor(tag, length, originalBytes, userDefined) ==
    [Tag |-> tag, Length |-> length, originalBytes |-> originalBytes,
     UserDefined |-> userDefined]

DescriptorsResult(err, off, o) == [err |-> err, off |-> off, o |-> o]

RECURSIVE descriptors(_, _, _, _)
\* a loop that goes on from where the decoder has left the cursor
descriptorAfterDecodeNoSeek(bs, dc, d, offsetDescriptorEnd, offsetEnd, o) ==
    IF dc.err # NoErr THEN DescriptorsResult(dc.err, dc.off, o)
    ELSE descriptors(bs, dc, offsetEnd, Append(o, d))

\* after the decoder: an error ends the call without the descriptor, else the
\* cursor is put at the descriptor's declared end and the descriptor appended
descriptorAfterDecode(bs, dc, d, offsetDescriptorEnd, offsetEnd, o) ==
    IF dc.err # NoErr THEN DescriptorsResult(dc.err, dc.off, o)
    ELSE descriptors(bs, Cursor(NoErr, offsetDescriptorEnd), offsetEnd, Append(o, d))

\* a descriptor of length > 0, with c the cursor after tag and length
descriptorBody(bs, c, tag, length, offsetEnd, o) ==
    IF ~HasBytes(bs, c.off, length) THEN DescriptorsResult(Err("ShortRead"), c.off, o)
    ELSE descriptorAfterDecode(bs,
            decodeDescriptor(bs, tag, length, c, c.off + length),
            Descriptor(tag, length, copyBytes(bs, c.off, length),
                       IF tag >= \h80 /\ tag <= \hFE
                       THEN shareBytes(bs, c.off, length) ELSE NilSlice),
            c.off + length, offsetEnd, o)

\* one turn of the loop, with c the outcome of reading tag and length
descriptorAfterHeader(bs, c, tag, length, offsetEnd, o) ==
    IF c.err # NoErr THEN DescriptorsResult(c.err, c.off, o)
    ELSE IF length > 0 THEN descriptorBody(bs, c, tag, length, offsetEnd, o)
    ELSE descriptors(bs, c, offsetEnd,
                     Append(o, Descriptor(tag, 0, NilSlice, NilSlice)))

\* the loop of parseDescriptors
descriptors(bs, c, offsetEnd, o) ==
    IF c.off >= offsetEnd THEN DescriptorsResult(NoErr, c.off, o)
    ELSE descriptorAfterHeader(bs, NextBytes(bs, c, 2), ByteAt(bs, c),
                               ByteAt(bs, NextBytes(bs, c, 1)), offsetEnd, o)

\* the 12-bit length in the two bytes at the cursor
Length12(bs, off) == (bs[off + 1] % 16) * 256 + bs[off + 2]

parseDescriptors(bs, off) ==
    IF ~HasBytes(bs, off, 2) THEN DescriptorsResult(Err("ShortRead"), off, <<>>)
    ELSE IF Length12(bs, off) > 0
    THEN descriptors(bs, Cursor(NoErr, off + 2), off + 2 + Length12(bs, off), <<>>)
    ELSE DescriptorsResult(NoErr, off + 2, <<>>)

\* Serialise writes into the buffer b it is given; d.Length + 2 is uint8
\* arithmetic; copy writes as many bytes as source and destination both have
ErrNoRoomInBuffer == Err("NoRoomInBuffer")

\* what a Serialise call returns (n, err), the buffer b it was given as the
\* call leaves it, and whether the call indexed past the end of b
SerialiseResult(n, err, b) == [n |-> n, err |-> err, b |-> b, panic |-> FALSE]

\* b with the bytes of src written from offset off on, as far as b reaches
WriteAt(b, off, src) ==
    [k \in 1..Len(b) |-> IF k > off /\ k <= off + Len(src) THEN src[k - off] ELSE b[k]]

\* descriptor.go:1457-1467, with mem the present content of the buffer the
\* descriptor was parsed from
DescriptorSerialise(d, mem, b) ==
    IF Len(b) < 3 \/ Len(b) < d.Length + 2 THEN SerialiseResult(0, ErrNoRoomInBuffer, b)
    ELSE SerialiseResult((d.Length + 2) % 256, NoErr,
                         WriteAt(WriteAt(b, 0, <<d.Tag, d.Length>>), 2,
                                 SliceBytes(mem, d.originalBytes)))

---------------------------------------------------------------------------
(* The table parsers.  Their code is not among the source files; they are  *)
(* written from the data model and the table parser contracts of the       *)
(* specification.  parsePSISection seeks to absolute offsets after the     *)
(* table parser returns, so only the parser's error and its decoded table  *)
(* reach the section engine.                                               *)

\* PSISectionSyntaxData: `table` names the one table pointer that is set
NilTable == [table |-> "none", id |-> 0, Programs |-> <<>>, entries |-> 0]

Table(table, id, entries) ==
    [table |-> table, id |-> id, Programs |-> <<>>, entries |-> entries]

TableResult(err, off, d) == [err |-> err, off |-> off, d |-> d]

\* the cursor a call leaves
CursorOf(r) == Cursor(r.err, r.off)

\* a descriptor loop at the cursor, as far as error and cursor go
descriptorLoop(bs, off) == CursorOf(parseDescriptors(bs, off))

\* a loop of entries up to offset `end`, each made of `fixed` bytes followed
\* by a descriptor loop; returns the number of entries
RECURSIVE entryLoop(_, _, _, _, _)
entryLoopNext(bs, d, end, fixed, n) ==
    IF d.err # NoErr THEN [err |-> d.err, off |-> d.off, n |-> n]
    ELSE entryLoop(bs, d.off, end, fixed, n + 1)

entryLoop(bs, off, end, fixed, n) ==
    IF off >= end THEN [err |-> NoErr, off |-> off, n |-> n]
    ELSE IF ~HasBytes(bs, off, fixed) THEN [err |-> Err("ShortRead"), off |-> off, n |-> n]
    ELSE entryLoopNext(bs, descriptorLoop(bs, off + fixed), end, fixed, n)

\* the table of a parser that ends with an entry loop
tableOfEntries(table, id, e) == TableResult(e.err, e.off, Table(table, id, e.n))

\* PAT: 4-byte program entries (16-bit program number, 3 reserved bits,
\* 13-bit PID) up to offsetSectionsEnd
RECURSIVE patPrograms(_, _, _, _)
patPrograms(bs, off, end, acc) ==
    IF off >= end THEN [err |-> NoErr, off |-> off, Programs |-> acc]
    ELSE IF ~HasBytes(bs, off, 4)
    THEN [err |-> Err("ShortRead"), off |-> off, Programs |-> acc]
    ELSE patPrograms(bs, off + 4, end,
            Append(acc, [ProgramNumber |-> U16(bs[off + 1], bs[off + 2]),
                         ProgramMapID  |-> U16(bs[off + 3] % 32, bs[off + 4])]))

patOfPrograms(id, r) ==
    TableResult(r.err, r.off,
                [table |-> "PAT", id |-> id, Programs |-> r.Programs,
                 entries |-> Len(r.Programs)])

parsePATSection(bs, off, offsetSectionsEnd, tableIDExtension) ==
    patOfPrograms(tableIDExtension, patPrograms(bs, off, offsetSectionsEnd, <<>>))

\* PMT: 16-bit PCR PID (3 reserved bits), program descriptor loop, then
\* elementary streams of stream type (1 byte), elementary PID (2 bytes,
\* 3 reserved bits), descriptor loop
RECURSIVE elementaryStreams(_, _, _, _)
elementaryStreamOf(bs, r, streamType, elementaryPID, end, acc) ==
    IF r.err # NoErr THEN [err |-> r.err, off |-> r.off, streams |-> acc]
    ELSE elementaryStreams(bs, r.off, end,
            Append(acc, [StreamType |-> streamType, ElementaryPID |-> elementaryPID,
                         ElementaryStreamDescriptors |-> r.o]))

elementaryStreams(bs, off, end, acc) ==
    IF off >= end THEN [err |-> NoErr, off |-> off, streams |-> acc]
    ELSE IF ~HasBytes(bs, off, 3)
    THEN [err |-> Err("ShortRead"), off |-> off, streams |-> acc]
    ELSE elementaryStreamOf(bs, parseDescriptors(bs, off + 3), bs[off + 1],
                            U16(bs[off + 2] % 32, bs[off + 3]), end, acc)

pmtOfStreams(id, pcrPID, programDescriptors, e) ==
    TableResult(e.err, e.off,
                [table |-> "PMT", id |-> id, Programs |-> <<>>,
                 entries |-> Len(e.streams), PCRPID |-> pcrPID,
                 ProgramDescriptors |-> programDescriptors,
                 ElementaryStreams |-> e.streams])

pmtStreams(bs, p, offsetSectionsEnd, id, pcrPID) ==
    IF p.err # NoErr THEN TableResult(p.err, p.off, NilTable)
    ELSE pmtOfStreams(id, pcrPID, p.o,
                      elementaryStreams(bs, p.off, offsetSectionsEnd, <<>>))

parsePMTSection(bs, off, offsetSectionsEnd, tableIDExtension) ==
    IF ~HasBytes(bs, off, 2) THEN TableResult(Err("ShortRead"), off, NilTable)
    ELSE pmtStreams(bs, parseDescriptors(bs, off + 2), offsetSectionsEnd,
                    tableIDExtension, U16(bs[off + 1] % 32, bs[off + 2]))

\* NIT: network descriptor loop, then a length-prefixed loop of transport
\* streams of TS id (2 bytes), original network id (2 bytes), descriptor loop
nitStreams(bs, p, id) ==
    IF p.err # NoErr THEN TableResult(p.err, p.off, NilTable)
    ELSE IF ~HasBytes(bs, p.off, 2) THEN TableResult(Err("ShortRead"), p.off, NilTable)
    ELSE tableOfEntries("NIT", id,
            entryLoop(bs, p.off + 2, p.off + 2 + Length12(bs, p.off), 4, 0))

parseNITSection(bs, off, tableIDExtension) ==
    nitStreams(bs, descriptorLoop(bs, off), tableIDExtension)

\* SDT: original network id (2 bytes), then services of service id (2 bytes),
\* EIT flags (1 byte), and running status / free CA mode in the 4 high bits
\* of the descriptor loop prefix
parseSDTSection(bs, off, offsetSectionsEnd, tableIDExtension) ==
    IF ~HasBytes(bs, off, 2) THEN TableResult(Err("ShortRead"), off, NilTable)
    ELSE tableOfEntries("SDT", tableIDExtension,
            entryLoop(bs, off + 2, offsetSectionsEnd, 3, 0))

\* EIT: TS id (2), original network id (2), segment last section number (1),
\* last table id (1), then events of event id (2), start time (5),
\* duration (3), descriptor loop
parseEITSection(bs, off, offsetSectionsEnd, tableIDExtension) ==
    IF ~HasBytes(bs, off, 6) THEN TableResult(Err("ShortRead"), off, NilTable)
    ELSE tableOfEntries("EIT", tableIDExtension,
            entryLoop(bs, off + 6, offsetSectionsEnd, 10, 0))

\* TOT: current time (5 bytes), descriptor loop
totOfLoop(p) == TableResult(p.err, p.off, Table("TOT", 0, 0))

parseTOTSection(bs, off) ==
    IF ~HasBytes(bs, off, 5) THEN TableResult(Err("ShortRead"), off, NilTable)
    ELSE totOfLoop(descriptorLoop(bs, off + 5))

---------------------------------------------------------------------------
(* Section syntax, section and PSI data, data_psi.go:76-170, 300-452       *)

NilSyntax == [isNil |-> TRUE, Header |-> NilSyntaxHeader, Data |-> NilTable]

\* data_psi.go:379-429; BAT, DIT, RST, SIT, ST and TDT are not parsed
parsePSISectionSyntaxData(bs, off, h, sh, offsetSectionsEnd) ==
    CASE h.TableType = "EIT" -> parseEITSection(bs, off, offsetSectionsEnd, sh.TableIDExtension)
      [] h.TableType = "NIT" -> parseNITSection(bs, off, sh.TableIDExtension)
      [] h.TableType = "PAT" -> parsePATSection(bs, off, offsetSectionsEnd, sh.TableIDExtension)
      [] h.TableType = "PMT" -> parsePMTSection(bs, off, offsetSectionsEnd, sh.TableIDExtension)
      [] h.TableType = "SDT" -> parseSDTSection(bs, off, offsetSectionsEnd, sh.TableIDExtension)
      [] h.TableType = "TOT" -> parseTOTSection(bs, off)
      [] OTHER -> TableResult(NoErr, off, NilTable)

\* data_psi.go:313-318
syntaxOfData(sh, d) ==
    [err |-> d.err, off |-> d.off,
     s   |-> [isNil |-> FALSE, Header |-> sh.h, Data |-> d.d]]

\* data_psi.go:306-318, with sh the outcome of the syntax header step
syntaxAfterHeader(bs, h, sh, offsetSectionsEnd) ==
    IF sh.err # NoErr
    THEN [err |-> sh.err, off |-> sh.off, s |-> NilSyntax]
    ELSE syntaxOfData(sh, parsePSISectionSyntaxData(bs, sh.off, h, sh.h, offsetSectionsEnd))

\* data_psi.go:301-319
parsePSISectionSyntax(bs, off, h, offsetSectionsEnd) ==
    syntaxAfterHeader(bs, h,
        IF hasPSISyntaxHeader(h.TableType)
        THEN parsePSISectionSyntaxHeader(bs, off)
        ELSE [err |-> NoErr, h |-> NilSyntaxHeader, off |-> off],
        offsetSectionsEnd)

\* a comparison whose error names the computed value first
checkCRC32ComputedFirst(stored, crc32) ==
    IF crc32.err # NoErr THEN [err |-> crc32.err, CRC32 |-> stored]
    ELSE IF crc32.o # stored
    THEN [err |-> ErrCRC32(crc32.o, stored), CRC32 |-> stored]
    ELSE [err |-> NoErr, CRC32 |-> stored]

\* data_psi.go:152-163: the comparison of the stored value with the
\* computed one
checkCRC32(stored, crc32) ==
    IF crc32.err # NoErr THEN [err |-> crc32.err, CRC32 |-> stored]
    ELSE IF crc32.o # stored
    THEN [err |-> ErrCRC32(stored, crc32.o), CRC32 |-> stored]
    ELSE [err |-> NoErr, CRC32 |-> stored]

\* data_psi.go:144-163, with c the outcome of parseCRC32
crc32OfSection(bs, offsetStart, offsetSectionsEnd, c) ==
    IF c.err # NoErr THEN [err |-> c.err, CRC32 |-> c.c]
    ELSE IF ~HasBytes(bs, offsetStart, offsetSectionsEnd - offsetStart)
    THEN [err |-> Err("ShortRead"), CRC32 |-> c.c]
    ELSE checkCRC32(c.c,
            computeCRC32(Bytes(bs, offsetStart, offsetSectionsEnd - offsetStart)))

\* the CRC32 block of parsePSISection, data_psi.go:134-164: returns the stored
\* value and the error
processCRC32(bs, offsetStart, offsetSectionsEnd) ==
    crc32OfSection(bs, offsetStart, offsetSectionsEnd, parseCRC32(bs, offsetSectionsEnd))

SectionResult(err, s, stop, off) == [err |-> err, s |-> s, stop |-> stop, off |-> off]

Section(crc32, header, syntax) == [CRC32 |-> crc32, Header |-> header, Syntax |-> syntax]

\* data_psi.go:159-169, with c the outcome of the CRC32 block
sectionAfterCRC32(hr, syn, c) ==
    IF c.err # NoErr
    THEN SectionResult(c.err, Section(c.CRC32, hr.h, syn.s), FALSE, hr.offsetSectionsEnd)
    ELSE SectionResult(NoErr, Section(c.CRC32, hr.h, syn.s), FALSE, hr.offsetEnd)

\* data_psi.go:128-169, with syn the outcome of parsePSISectionSyntax
sectionAfterSyntax(bs, hr, syn) ==
    IF syn.err # NoErr
    THEN SectionResult(syn.err, Section(U32Zero, hr.h, syn.s), FALSE, syn.off)
    ELSE IF hasCRC32(hr.h.TableType)
    THEN sectionAfterCRC32(hr, syn, processCRC32(bs, hr.offsetStart, hr.offsetSectionsEnd))
    ELSE SectionResult(NoErr, Section(U32Zero, hr.h, syn.s), FALSE, hr.offsetEnd)

\* a parsePSISection that looks for a syntax section whatever the section
\* length
sectionAfterHeaderAlwaysSyntax(bs, hr) ==
    IF hr.err # NoErr
    THEN SectionResult(hr.err, Section(U32Zero, hr.h, NilSyntax), FALSE, hr.off)
    ELSE IF shouldStopPSIParsing(hr.h.TableType)
    THEN SectionResult(NoErr, Section(U32Zero, hr.h, NilSyntax), TRUE, hr.off)
    ELSE sectionAfterSyntax(bs, hr,
            parsePSISectionSyntax(bs, hr.off, hr.h, hr.offsetSectionsEnd))

\* data_psi.go:114-169, with hr the outcome of parsePSISectionHeader
sectionAfterHeader(bs, hr) ==
    IF hr.err # NoErr
    THEN SectionResult(hr.err, Section(U32Zero, hr.h, NilSyntax), FALSE, hr.off)
    ELSE IF shouldStopPSIParsing(hr.h.TableType)
    THEN SectionResult(NoErr, Section(U32Zero, hr.h, NilSyntax), TRUE, hr.off)
    ELSE IF hr.h.SectionLength > 0
    THEN sectionAfterSyntax(bs, hr,
            parsePSISectionSyntax(bs, hr.off, hr.h, hr.offsetSectionsEnd))
    ELSE SectionResult(NoErr, Section(U32Zero, hr.h, NilSyntax), FALSE, hr.offsetEnd)

\* data_psi.go:108-170
parsePSISection(bs, off) == sectionAfterHeader(bs, parsePSISectionHeader(bs, off))

\* the section loop of parsePSIData, data_psi.go:94-103
RECURSIVE parseSections(_, _, _)
parseSectionsNext(bs, r, sections) ==
    IF r.err # NoErr
    THEN [err |-> r.err, Sections |-> sections, off |-> r.off]
    ELSE IF r.stop
    THEN [err |-> NoErr, Sections |-> Append(sections, r.s), off |-> r.off]
    ELSE parseSections(bs, r.off, Append(sections, r.s))

parseSections(bs, off, sections) ==
    IF ~HasBytesLeft(bs, off)
    THEN [err |-> NoErr, Sections |-> sections, off |-> off]
    ELSE parseSectionsNext(bs, parsePSISection(bs, off), sections)

psiDataOfSections(pointerField, r) ==
    [err |-> r.err, off |-> r.off,
     d |-> [PointerField |-> pointerField, Sections |-> r.Sections]]

\* data_psi.go:77-105
parsePSIData(bs) ==
    IF ~HasBytes(bs, 0, 1)
    THEN [err |-> Err("ShortRead"), off |-> 0,
          d |-> [PointerField |-> 0, Sections |-> <<>>]]
    ELSE psiDataOfSections(bs[1], parseSections(bs, 1 + bs[1], <<>>))

\* a Data: exactly one table pointer set (tbl.table names it), or a PES
NewData(kind, tbl, firstPacket, pid) ==
    [kind |-> kind, tbl |-> tbl, FirstPacket |-> firstPacket, PID |-> pid]

\* the table types toData emits a Data for, data_psi.go:436-449
ToDataTypes == {"EIT", "NIT", "PAT", "PMT", "SDT", "TOT"}

\* data_psi.go:434-450 over the sections toData emits a Data for
dataOfSections(emitted, firstPacket, pid) ==
    [panic |-> \E k \in 1..Len(emitted) : emitted[k].Syntax.isNil,
     ds    |-> [k \in 1..Len(emitted) |->
                  NewData(emitted[k].Header.TableType, emitted[k].Syntax.Data,
                          firstPacket, pid)]]

\* data_psi.go:432-452.  s.Syntax.Data.X dereferences s.Syntax: a section of
\* one of the six types whose Syntax is nil makes the call panic
toData(d, firstPacket, pid) ==
    dataOfSections(SelectSeq(d.Sections, LAMBDA s : s.Header.TableType \in ToDataTypes),
                   firstPacket, pid)

---------------------------------------------------------------------------
(* Serialisation, data_psi.go:454-613.  A Serialise call is given a buffer *)
(* b (in the code a sub-slice b[idx:] of the caller's buffer) and returns  *)
(* the number of bytes written and an error.  The serialisers of the PAT   *)
(* and PMT bodies and of the packet header are not among the source files; *)
(* they are written from the wire formats of the specification, reserved   *)
(* bits emitted as ones.                                                   *)

\* b[idx:]
Rest(b, idx) == SubSeq(b, idx + 1, Len(b))

\* the caller's buffer after a callee has written into b[idx:]
Splice(b, idx, sub) == SubSeq(b, 1, idx) \o sub

\* a running serialisation R followed by a call r made on Rest(R.b, R.n):
\* idx += n on success, return idx, err on failure
Then(R, r) ==
    [n     |-> IF r.err = NoErr /\ ~r.panic THEN R.n + r.n ELSE R.n,
     err   |-> r.err,
     b     |-> Splice(R.b, R.n, r.b),
     panic |-> r.panic]

\* a write of the given bytes by a callee that checks the room first
WriteAll(b, bytes) ==
    IF Len(b) < Len(bytes) THEN SerialiseResult(0, ErrNoRoomInBuffer, b)
    ELSE SerialiseResult(Len(bytes), NoErr, WriteAt(b, 0, bytes))

WriteBytes(R, bytes) ==
    IF R.err # NoErr \/ R.panic THEN R ELSE Then(R, WriteAll(Rest(R.b, R.n), bytes))

\* Btou8
Btou8(b) == IF b THEN 1 ELSE 0

\* U16toU8s
U16toU8s(a) == <<(a \div 256) % 256, a % 256>>

\* the descriptors of ds from the k-th on, each through Descriptor.Serialise
RECURSIVE descriptorsSerialise(_, _, _, _)
descriptorsSerialise(ds, mem, R, k) ==
    IF R.err # NoErr \/ R.panic \/ k > Len(ds) THEN R
    ELSE descriptorsSerialise(ds, mem,
            Then(R, DescriptorSerialise(ds[k], mem, Rest(R.b, R.n))), k + 1)

\* sum of 2 + Length over the descriptors from the k-th on
RECURSIVE descriptorsLength(_, _)
descriptorsLength(ds, k) ==
    IF k > Len(ds) THEN 0 ELSE 2 + ds[k].Length + descriptorsLength(ds, k + 1)

\* a descriptor loop: 4 reserved bits, 12-bit length, the descriptors
descriptorLoopSerialise(ds, mem, R) ==
    descriptorsSerialise(ds, mem,
        WriteBytes(R, <<\hF0 + ((descriptorsLength(ds, 1) \div 256) % 16),
                        descriptorsLength(ds, 1) % 256>>),
        1)

\* PATData.Serialise: program number, 3 reserved bits, 13-bit PID
RECURSIVE patProgramsSerialise(_, _, _)
patProgramsSerialise(programs, R, k) ==
    IF R.err # NoErr \/ R.panic \/ k > Len(programs) THEN R
    ELSE patProgramsSerialise(programs,
            WriteBytes(R, U16toU8s(programs[k].ProgramNumber)
                          \o <<\hE0 + ((programs[k].ProgramMapID \div 256) % 32),
                               programs[k].ProgramMapID % 256>>),
            k + 1)

PATDataSerialise(d, b) == patProgramsSerialise(d.Programs, SerialiseResult(0, NoErr, b), 1)

\* PMTData.Serialise: PCR PID, program descriptors, elementary streams
RECURSIVE pmtStreamsSerialise(_, _, _, _)
pmtStreamsSerialise(streams, mem, R, k) ==
    IF R.err # NoErr \/ R.panic \/ k > Len(streams) THEN R
    ELSE pmtStreamsSerialise(streams, mem,
            descriptorLoopSerialise(streams[k].ElementaryStreamDescriptors, mem,
                WriteBytes(R, <<streams[k].StreamType,
                                \hE0 + ((streams[k].ElementaryPID \div 256) % 32),
                                streams[k].ElementaryPID % 256>>)),
            k + 1)

PMTDataSerialise(d, mem, b) ==
    pmtStreamsSerialise(d.ElementaryStreams, mem,
        descriptorLoopSerialise(d.ProgramDescriptors, mem,
            WriteBytes(SerialiseResult(0, NoErr, b),
                       <<\hE0 + ((d.PCRPID \div 256) % 32), d.PCRPID % 256>>)),
        1)

\* data_psi.go:588-602: the PAT, else the PMT, else nothing
PSISectionSyntaxDataSerialise(d, mem, b) ==
    CASE d.table = "PAT" -> PATDataSerialise(d, b)
      [] d.table = "PMT" -> PMTDataSerialise(d, mem, b)
      [] OTHER -> SerialiseResult(0, NoErr, b)

\* data_psi.go:576-586
PSISectionSyntaxHeaderSerialise(sh, b) ==
    IF Len(b) < 5 THEN SerialiseResult(0, ErrNoRoomInBuffer, b)
    ELSE SerialiseResult(5, NoErr,
            WriteAt(b, 0, U16toU8s(sh.TableIDExtension)
                          \o <<(((sh.VersionNumber % 32) * 2) % 256)
                                + Btou8(sh.CurrentNextIndicator) + \hC0,
                               sh.SectionNumber, sh.LastSectionNumber>>))

\* data_psi.go:566-574, with R the serialisation up to the syntax data
syntaxDataSerialise(s, mem, R) ==
    IF R.err # NoErr THEN R
    ELSE Then(R, PSISectionSyntaxDataSerialise(s.Data, mem, Rest(R.b, R.n)))

\* data_psi.go:554-575
PSISectionSyntaxSerialise(s, mem, b) ==
    IF Len(b) = 0 THEN SerialiseResult(0, ErrNoRoomInBuffer, b)
    ELSE syntaxDataSerialise(s, mem,
            IF s.Header.isNil THEN SerialiseResult(0, NoErr, b)
            ELSE Then(SerialiseResult(0, NoErr, b),
                      PSISectionSyntaxHeaderSerialise(s.Header, b)))

\* data_psi.go:540-552
PSISectionHeaderSerialise(h, b) ==
    IF h.TableID = 255 THEN SerialiseResult(0, NoErr, b)
    ELSE IF Len(b) < 3 THEN SerialiseResult(0, ErrNoRoomInBuffer, b)
    ELSE SerialiseResult(3, NoErr,
            WriteAt(b, 0, <<h.TableID % 256,
                            Btou8(h.SectionSyntaxIndicator) * 128
                            + Btou8(h.PrivateBit) * 64 + 48
                            + ((h.SectionLength \div 256) % 16),
                            h.SectionLength % 256>>))

\* data_psi.go:508-536: b[idx] ... b[idx+3] are written one by one, the
\* first of them that lies past the end of b makes the call panic
sectionCRC32Serialise(s, R, crc32) ==
    [n     |-> R.n + 4,
     err   |-> NoErr,
     b     |-> WriteAt(R.b, R.n, U32Bytes(crc32.o)),
     panic |-> Len(R.b) < R.n + 4]

\* a Serialise that writes the section's stored CRC32
sectionStoredCRC32Serialise(s, R) ==
    IF hasCRC32(s.Header.TableType)
    THEN sectionCRC32Serialise(s, R, [o |-> s.CRC32, err |-> NoErr])
    ELSE R

\* data_psi.go:498-536, with R the header and the syntax as written
sectionAfterHeaderSerialise(s, R) ==
    IF hasCRC32(s.Header.TableType)
    THEN sectionCRC32Serialise(s, R, computeCRC32(SubSeq(R.b, 1, R.n)))
    ELSE R

\* data_psi.go:498-506, with R the outcome of the syntax: the header is
\* written with the section length idx + 4 - 3 as a uint16
sectionHeaderSerialise(s, R) ==
    IF R.err # NoErr THEN R
    ELSE sectionAfterHeaderSerialise(s,
            [R EXCEPT !.b = PSISectionHeaderSerialise(
                                [s.Header EXCEPT !.SectionLength = (R.n + 4 - 3) % 65536],
                                R.b).b])

\* data_psi.go:480-538
PSISectionSerialise(s, mem, b) ==
    IF s.Header.TableID = 255 THEN SerialiseResult(0, NoErr, b)
    ELSE IF Len(b) <= 3 THEN SerialiseResult(0, ErrNoRoomInBuffer, b)
    ELSE sectionHeaderSerialise(s,
            IF s.Syntax.isNil THEN SerialiseResult(3, NoErr, b)
            ELSE Then(SerialiseResult(3, NoErr, b),
                      PSISectionSyntaxSerialise(s.Syntax, mem, Rest(b, 3))))

\* the section loop of PSIData.Serialise, data_psi.go:465-471
RECURSIVE sectionsSerialise(_, _, _, _)
sectionsSerialise(sections, mem, R, k) ==
    IF R.err # NoErr \/ R.panic \/ k > Len(sections) THEN R
    ELSE sectionsSerialise(sections, mem,
            Then(R, PSISectionSerialise(sections[k], mem, Rest(R.b, R.n))), k + 1)

\* data_psi.go:472-477: the rest of b is stuffed with 0xFF
stuffed(R) ==
    IF R.err # NoErr \/ R.panic THEN R
    ELSE [R EXCEPT !.n = Len(R.b),
                   !.b = [k \in 1..Len(R.b) |-> IF k > R.n THEN \hFF ELSE R.b[k]]]

\* data_psi.go:454-478
PSIDataSerialise(d, mem, b) ==
    IF Len(b) <= 1 THEN SerialiseResult(0, ErrNoRoomInBuffer, b)
    ELSE IF d.PointerField # 0 THEN SerialiseResult(0, Err("PointerFieldUnimplemented"), b)
    ELSE stuffed(sectionsSerialise(d.Sections, mem,
                    SerialiseResult(1, NoErr, WriteAt(b, 0, <<d.PointerField % 256>>)), 1))

\* data_psi.go:498: Serialise stores the section length it is going to write
\* in the header of the section it serialises
syntaxLengthStored(s, r) ==
    IF r.err # NoErr THEN s
    ELSE [s EXCEPT !.Header.SectionLength = (3 + r.n + 4 - 3) % 65536]

\* the section after PSISection.Serialise, data_psi.go:480-498
sectionSerialised(s, mem, b) ==
    IF s.Header.TableID = 255 \/ Len(b) <= 3 THEN s
    ELSE IF s.Syntax.isNil THEN [s EXCEPT !.Header.SectionLength = 3 + 4 - 3]
    ELSE syntaxLengthStored(s, PSISectionSyntaxSerialise(s.Syntax, mem, Rest(b, 3)))

\* the sections after the loop of PSIData.Serialise, data_psi.go:462-470
RECURSIVE sectionsSerialised(_, _, _, _)
sectionsSerialised(sections, mem, R, k) ==
    IF R.err # NoErr \/ R.panic \/ k > Len(sections) THEN sections
    ELSE sectionsSerialised(
            [sections EXCEPT ![k] = sectionSerialised(sections[k], mem, Rest(R.b, R.n))],
            mem, Then(R, PSISectionSerialise(sections[k], mem, Rest(R.b, R.n))), k + 1)

\* the PSI data after PSIData.Serialise
psiDataSerialised(d, mem, b) ==
    IF Len(b) <= 1 \/ d.PointerField # 0 THEN d
    ELSE [d EXCEPT !.Sections =
            sectionsSerialised(d.Sections, mem,
                SerialiseResult(1, NoErr, WriteAt(b, 0, <<d.PointerField % 256>>)), 1)]

---------------------------------------------------------------------------
(* The packet, as far as a PSI packet is parsed and written back.  The     *)
(* packet parser and serialiser are not among the source files; the header *)
(* layout is that of packetHeaderBytes, descriptor.go:1527-1538, and the   *)
(* payload offset that of TestPayloadOffset.  The adaptation field is     *)
(* that of the specification: length, flags, the optional fields in their  *)
(* order, stuffing; its extension is kept as a length and a body.          *)

syncByte == \h47

ErrPacketMustStartWithASyncByte == Err("PacketMustStartWithASyncByte")

\* the three header bytes at offset off
parsePacketHeader(bs, off) ==
    [TransportErrorIndicator    |-> HasBit(bs[off + 1], \h80),
     PayloadUnitStartIndicator  |-> HasBit(bs[off + 1], \h40),
     TransportPriority          |-> HasBit(bs[off + 1], \h20),
     PID                        |-> U16(bs[off + 1] % 32, bs[off + 2]),
     TransportScramblingControl |-> bs[off + 3] \div 64,
     HasAdaptationField         |-> HasBit(bs[off + 3], \h20),
     HasPayload                 |-> HasBit(bs[off + 3], \h10),
     ContinuityCounter          |-> bs[off + 3] % 16]

NilAdaptationField == [isNil |-> TRUE, Length |-> 0]

\* a clock reference at offset off: the 33-bit base, as its upper 16 and its
\* lower 17 bits, six reserved bits that are not kept, the 9-bit extension
parsePCR(bs, off) ==
    [Base      |-> <<bs[off + 1] * 256 + bs[off + 2],
                     bs[off + 3] * 512 + bs[off + 4] * 2 + bs[off + 5] \div 128>>,
     Extension |-> (bs[off + 5] % 2) * 256 + bs[off + 6]]

\* the six bytes of a clock reference, reserved bits all ones
ClockReferenceBytes(c) ==
    <<c.Base[1] \div 256, c.Base[1] % 256, c.Base[2] \div 512, (c.Base[2] \div 2) % 256,
      (c.Base[2] % 2) * 128 + \h7E + c.Extension \div 256, c.Extension % 256>>

\* the byte at offset off, 0 behind the end
LengthByteAt(bs, off) == IF HasBytes(bs, off, 1) THEN bs[off + 1] ELSE 0

\* the optional fields of an adaptation field whose flags are at offset off
\* and which ends at offset end: each field sits behind those before it
adaptationFieldAt(bs, off, end, flags) ==
    LET offOPCR    == off + 1 + (IF HasBit(flags, \h10) THEN 6 ELSE 0)
        offSplice  == offOPCR + (IF HasBit(flags, \h08) THEN 6 ELSE 0)
        offPrivate == offSplice + (IF HasBit(flags, \h04) THEN 1 ELSE 0)
        privateLen == IF HasBit(flags, \h02) THEN LengthByteAt(bs, offPrivate) ELSE 0
        offExt     == offPrivate + (IF HasBit(flags, \h02) THEN 1 + privateLen ELSE 0)
        extLen     == IF HasBit(flags, \h01) THEN LengthByteAt(bs, offExt) ELSE 0
        offStuff   == offExt + (IF HasBit(flags, \h01) THEN 1 + extLen ELSE 0)
    IN  [err |-> IF offStuff > end THEN Err("ShortRead") ELSE NoErr,
         a   |-> IF offStuff > end THEN NilAdaptationField
                 ELSE [isNil |-> FALSE,
                       Length |-> end - off,
                       DiscontinuityIndicator |-> HasBit(flags, \h80),
                       RandomAccessIndicator |-> HasBit(flags, \h40),
                       ElementaryStreamPriorityIndicator |-> HasBit(flags, \h20),
                       HasPCR |-> HasBit(flags, \h10),
                       HasOPCR |-> HasBit(flags, \h08),
                       HasSplicingCountdown |-> HasBit(flags, \h04),
                       HasTransportPrivateData |-> HasBit(flags, \h02),
                       HasAdaptationExtensionField |-> HasBit(flags, \h01),
                       PCR |-> IF HasBit(flags, \h10) THEN parsePCR(bs, off + 1) ELSE <<>>,
                       OPCR |-> IF HasBit(flags, \h08) THEN parsePCR(bs, offOPCR) ELSE <<>>,
                       SpliceCountdown |-> IF HasBit(flags, \h04) THEN bs[offSplice + 1]
                                                                  ELSE 0,
                       TransportPrivateDataLength |-> privateLen,
                       TransportPrivateData |->
                           SubSeq(bs, offPrivate + 2, offPrivate + 1 + privateLen),
                       AdaptationExtensionField |->
                           IF HasBit(flags, \h01)
                           THEN [Length |-> extLen,
                                 body |-> SubSeq(bs, offExt + 2, offExt + 1 + extLen)]
                           ELSE <<>>]]

\* an adaptation field of length 0 is its length byte
EmptyAdaptationField == [isNil |-> FALSE, Length |-> 0]

\* the adaptation field whose length byte is at offset off; what the fields
\* leave of the length is stuffing and is not kept
parsePacketAdaptationField(bs, off) ==
    IF ~HasBytes(bs, off, 1) THEN [err |-> Err("ShortRead"), a |-> NilAdaptationField]
    ELSE IF bs[off + 1] = 0 THEN [err |-> NoErr, a |-> EmptyAdaptationField]
    ELSE IF ~HasBytes(bs, off + 1, bs[off + 1])
    THEN [err |-> Err("ShortRead"), a |-> NilAdaptationField]
    ELSE adaptationFieldAt(bs, off + 1, off + 1 + bs[off + 1], bs[off + 2])

\* the flags and the optional fields of an adaptation field
adaptationFieldBody(a) ==
    <<Btou8(a.DiscontinuityIndicator) * 128 + Btou8(a.RandomAccessIndicator) * 64
      + Btou8(a.ElementaryStreamPriorityIndicator) * 32 + Btou8(a.HasPCR) * 16
      + Btou8(a.HasOPCR) * 8 + Btou8(a.HasSplicingCountdown) * 4
      + Btou8(a.HasTransportPrivateData) * 2 + Btou8(a.HasAdaptationExtensionField)>>
    \o (IF a.HasPCR THEN ClockReferenceBytes(a.PCR) ELSE <<>>)
    \o (IF a.HasOPCR THEN ClockReferenceBytes(a.OPCR) ELSE <<>>)
    \o (IF a.HasSplicingCountdown THEN <<a.SpliceCountdown>> ELSE <<>>)
    \o (IF a.HasTransportPrivateData
        THEN <<a.TransportPrivateDataLength>> \o a.TransportPrivateData ELSE <<>>)
    \o (IF a.HasAdaptationExtensionField
        THEN <<a.AdaptationExtensionField.Length>> \o a.AdaptationExtensionField.body
        ELSE <<>>)

\* an adaptation field written without its stuffing
adaptationFieldNotStuffed(a, body) == <<a.Length>> \o body

\* length, body, and 0xFF up to the length
adaptationFieldStuffed(a, body) == <<a.Length>> \o body \o [k \in 1..(a.Length - Len(body)) |-> \hFF]

\* PacketAdaptationField.Serialise
adaptationFieldBytes(a) ==
    IF a.Length = 0 THEN <<0>> ELSE adaptationFieldStuffed(a, adaptationFieldBody(a))

NilPacket == [Header |-> parsePacketHeader(<<0, 0, 0>>, 0),
              AdaptationField |-> NilAdaptationField, Payload |-> <<>>]

PacketResult(err, p) == [err |-> err, p |-> p]

\* payloadOffset with offsetStart = 1, the offset after the sync byte
payloadOffset(h, a) == 1 + 3 + (IF h.HasAdaptationField THEN 1 + a.Length ELSE 0)

packetOf(bs, h, a) ==
    IF ~HasBytes(bs, 0, payloadOffset(h, a)) THEN PacketResult(Err("ShortRead"), NilPacket)
    ELSE PacketResult(NoErr,
            [Header |-> h, AdaptationField |-> a,
             Payload |-> IF h.HasPayload THEN Rest(bs, payloadOffset(h, a)) ELSE <<>>])

packetWithAdaptationField(bs, h, r) ==
    IF r.err # NoErr THEN PacketResult(r.err, NilPacket) ELSE packetOf(bs, h, r.a)

packetAfterHeader(bs, h) ==
    IF ~h.HasAdaptationField THEN packetOf(bs, h, NilAdaptationField)
    ELSE packetWithAdaptationField(bs, h, parsePacketAdaptationField(bs, 4))

parsePacket(bs) ==
    IF ~HasBytes(bs, 0, 1) THEN PacketResult(Err("ShortRead"), NilPacket)
    ELSE IF bs[1] # syncByte THEN PacketResult(ErrPacketMustStartWithASyncByte, NilPacket)
    ELSE IF ~HasBytes(bs, 1, 3) THEN PacketResult(Err("ShortRead"), NilPacket)
    ELSE packetAfterHeader(bs, parsePacketHeader(bs, 1))

PacketHeaderBytes(h) ==
    <<Btou8(h.TransportErrorIndicator) * 128 + Btou8(h.PayloadUnitStartIndicator) * 64
      + Btou8(h.TransportPriority) * 32 + (h.PID \div 256),
      h.PID % 256,
      h.TransportScramblingControl * 64 + Btou8(h.HasAdaptationField) * 32
      + Btou8(h.HasPayload) * 16 + h.ContinuityCounter>>

\* Packet.Serialise: sync byte, header, adaptation field, payload
PacketSerialise(p, b) ==
    WriteAll(b, <<syncByte>> \o PacketHeaderBytes(p.Header)
                \o (IF p.Header.HasAdaptationField
                    THEN adaptationFieldBytes(p.AdaptationField)
                    ELSE <<>>)
                \o p.Payload)

\* ParsePSIPacket: the PSI data of a packet's payload
ParsePSIPacket(p) == parsePSIData(p.Payload)

---------------------------------------------------------------------------
(* The payload classifier.  IsPSIPayload is not among the source files; it *)
(* is written from the classifier section of the specification and from    *)
(* TestIsPSIPayload.                                                       *)

PIDPAT == \h0000
PIDCAT == \h0001

\* a classifier that takes the whole range 0x10..0x1F for service information
IsPSIPayloadWholeRange(pid, pm) ==
    \/ pid = PIDPAT
    \/ pid \in \h10 .. \h1F
    \/ pid \in DOMAIN pm

\* the classifier: PAT PID, the DVB service-information PIDs, and every PID
\* of the program map
IsPSIPayload(pid, pm) ==
    \/ pid = PIDPAT
    \/ pid \in \h10 .. \h14
    \/ pid = \h1E
    \/ pid = \h1F
    \/ pid \in DOMAIN pm

---------------------------------------------------------------------------
(* Inputs of the function harness                                          *)

\* longest byte sequence handed to computeCRC32 by enumeration
MaxCRCLen == 3
\* most sections in an enumerated PSI payload
MaxSections == 2

\* bytes that exercise both outcomes of the top-bit comparison
CRCBytes == {\h00, \h01, \h47, \h80, \hB0, \hFF}

\* the PAT section of TestSerialisePATData, data_psi_serialise_test.go:21
PATMultiProgram ==
    <<\h00, \hB0, \h15, \h07, \h44, \hEF, \h00, \h00, \h00, \h00, \hE0, \h10,
      \hE8, \h80, \hE1, \h01, \hE8, \h98, \hFF, \hC8, \hA6, \h6D, \h35, \hDA>>

\* the PMT section of TestSerialisePMTData "Single-PES", data_psi_serialise_test.go:73
PMTSinglePES ==
    <<\h02, \hB0, \h17, \h00, \h01, \hC1, \h00, \h00, \hE1, \h00, \hF0, \h00,
      \h1B, \hE1, \h00, \hF0, \h00, \h11, \hE1, \h01, \hF0, \h00,
      \h5F, \h91, \hFC, \h08>>

\* psiSectionSyntaxHeaderBytes, data_psi_serialise_test.go:397-407
SyntaxHeaderBytes == <<\h00, \h01, \hEB, \h02, \h03>>

SeqsUpTo(S, n) == UNION {[1..k -> S] : k \in 0..n}

\* a section: 3-byte header with the length of what follows, the body and,
\* for a CRC table type, 4 CRC bytes: the right ones ("good"), the right
\* ones with the last bit flipped ("bad"), or 00 00 00 20 ("x20", the value
\* of TestParsePSIData)
sectionWithCRC(head, good, crc) ==
    head \o (CASE crc = "good" -> U32Bytes(good)
               [] crc = "bad"  -> U32Bytes(U32(good[1], BitXor(good[2], 1)))
               [] OTHER        -> <<0, 0, 0, \h20>>)

sectionOfLength(tableID, body, crc, length) ==
    IF hasCRC32(psiTableType(tableID))
    THEN sectionWithCRC(<<tableID, \hB0 + (length \div 256), length % 256>> \o body,
                        computeCRC32(<<tableID, \hB0 + (length \div 256), length % 256>>
                                     \o body).o, crc)
    ELSE <<tableID, \hB0 + (length \div 256), length % 256>> \o body

MkSection(tableID, body, crc) ==
    sectionOfLength(tableID, body, crc,
        Len(body) + (IF hasCRC32(psiTableType(tableID)) THEN 4 ELSE 0))

\* a minimal well-formed body for each parsed table type
bodyOfType(t) ==
        CASE t = "PAT" -> SyntaxHeaderBytes \o <<\h00, \h01, \hE1, \h00>>
          [] t = "PMT" -> SyntaxHeaderBytes \o <<\hE1, \h00, \hF0, \h00>>
          [] t = "EIT" -> SyntaxHeaderBytes \o <<\h00, \h01, \h00, \h02, \h03, \h4E>>
          [] t = "NIT" -> SyntaxHeaderBytes \o <<\hF0, \h00, \hF0, \h00>>
          [] t = "SDT" -> SyntaxHeaderBytes \o <<\h00, \h02>>
          [] t = "TOT" -> <<\hDC, \hCA, \h12, \h34, \h56, \hF0, \h00>>
          [] OTHER     -> <<\h12, \h34>>

SampleBody(tableID) == bodyOfType(psiTableType(tableID))

SampleTableIDs == {\h00, \h02, \h40, \h42, \h4A, \h4E, \h70, \h73}

SampleSections ==
    {MkSection(t, SampleBody(t), c) : t \in SampleTableIDs, c \in {"good", "bad", "x20"}}
    \cup {PATMultiProgram, PMTSinglePES,
          <<\h00, \hB0, \h00>>,                      \* header only
          <<\h00, \hB0, \h02, \h12, \h34>>,          \* shorter than a CRC
          <<\h00, \hB0, \h0D>> \o SyntaxHeaderBytes, \* cut off
          <<\hFF>>, <<\hFE>>, <<\h01>>}

\* what may follow the sections: nothing, stuffing, or an unknown table ID
\* followed by a well-formed section
SampleTails ==
    {<<>>, <<\hFF, \hFF>>, <<\hFF>> \o MkSection(\h00, SampleBody(\h00), "good"),
     <<\hFE>> \o MkSection(\h73, SampleBody(\h73), "good")}

RECURSIVE Flatten(_)
Flatten(ss) == IF ss = <<>> THEN <<>> ELSE Head(ss) \o Flatten(Tail(ss))

\* PSI payloads: pointer field, filler, sections, tail
PSISections ==
    {MkSection(\h00, SampleBody(\h00), "good"), MkSection(\h00, SampleBody(\h00), "bad"),
     MkSection(\h70, SampleBody(\h70), "good"), MkSection(\h73, SampleBody(\h73), "good"),
     PMTSinglePES, <<\h00, \hB0, \h00>>, <<\hFF>>, <<\h01>>}

PSIInputs ==
    {filler \o Flatten(ss) \o tail :
        filler \in {<<0>>, <<2, \h74, \h65>>},
        ss \in SeqsUpTo(PSISections, MaxSections),
        tail \in SampleTails}

\* section lengths around the largest one a section may have, 1021
SampleSectionLengths == {0, 1, 1020, 1021, 1022, 2730, 4095}

\* the first byte behind the table ID: section syntax indicator, private
\* bit, two reserved bits, and the top four bits of the section length
SectionHeader(tableID, flags, length) ==
    <<tableID, flags + (length \div 256), length % 256>>

\* headers at offset off of a buffer, whole and cut off
HeaderInputs ==
    {<<filler \o SectionHeader(t, flags, n), Len(filler)>> :
        filler \in {<<>>, <<\h47>>},
        t \in SampleTableIDs \cup {\hFE, \hFF},
        flags \in {\h00, \h30, \hB0, \hF0},
        n \in SampleSectionLengths}
    \cup {<<<<>>, 0>>, <<<<\h00>>, 0>>, <<<<\h00, \hB0>>, 0>>, <<<<\h47, \h00, \hB0>>, 1>>}

\* a section at offset off of a buffer; and sections of which the buffer
\* holds the header only
SectionInputs ==
    {<<filler \o sec \o tail, Len(filler)>> :
        filler \in {<<>>, <<\h00>>, <<\h47, \h00>>},
        sec \in SampleSections,
        tail \in SampleTails}
    \cup {<<SectionHeader(t, \hB0, n), 0>> :
            t \in SampleTableIDs, n \in SampleSectionLengths}

\* one table ID of each table type that does not stop the parsing
EachTypeTableIDs == {\h00, \h02, \h40, \h42, \h4A, \h4E, \h70, \h71, \h72, \h73, \h7E, \h7F}

\* PSI data as parsePSIData returns them: sections of every table type, a
\* header-only section among them, the last one a Null or Unknown section
\* where the payload goes on with 0xFF or 0xFE
ToDataPayloads ==
    {<<0>> \o Flatten(ss) \o tail :
        ss \in SeqsUpTo({MkSection(t, SampleBody(t), "good") : t \in EachTypeTableIDs}
                        \cup {<<\h00, \hB0, \h00>>}, MaxSections),
        tail \in {<<\hFF>>, <<\hFE>>}}
    \cup {<<0>> \o SectionHeader(t, \hB0, 0) \o <<\hFF>> :
            t \in {\h00, \h02, \h40, \h42, \h4E, \h73}}

\* PSI data, first packet and PID
ToDataInputs ==
    {<<parsePSIData(p).d, x[1], x[2]>> : p \in ToDataPayloads, x \in {<<1, 0>>, <<2, \h101>>}}

\* PIDs and program maps
IsPSIPayloadInputs ==
    {<<pid, pm>> :
        pid \in 0..255 \cup {\h101, \h1FFF},
        pm \in {<<>>, [q \in {\h101} |-> 1], [q \in {\h01, \h21} |-> 0]}}

CRCInputs ==
    SeqsUpTo(CRCBytes, MaxCRCLen)
    \cup {SubSeq(PATMultiProgram, 1, 20), SubSeq(PMTSinglePES, 1, 22)}

FnNames == {"computeCRC32", "psiTableType", "parsePSISectionHeader", "parsePSISection",
            "parsePSIData", "toData", "IsPSIPayload"}

FnInputs(f) ==
    CASE f = "computeCRC32"    -> CRCInputs
      [] f = "psiTableType"    -> 0..255
      [] f = "parsePSISectionHeader" -> HeaderInputs
      [] f = "parsePSISection" -> SectionInputs
      [] f = "parsePSIData"    -> PSIInputs
      [] f = "toData"          -> ToDataInputs
      [] f = "IsPSIPayload"    -> IsPSIPayloadInputs

---------------------------------------------------------------------------
(* The function harness: Init draws a function and an input, one action    *)
(* per function applies it.                                                *)

DmxIdle ==
    /\ stream = <<>>
    /\ pos = 0
    /\ packetPool = <<>>
    /\ dataBuffer = <<>>
    /\ programMap = <<>>
    /\ panicked = FALSE
    /\ ctxErr = NoErr
    /\ ret = <<>>
    /\ optPacketsParser = <<>>
    /\ trace = <<>>

InitFn ==
    /\ fn \in FnNames
    /\ arg \in FnInputs(fn)
    /\ res = <<>>
    /\ pc = "call"
    /\ buf = <<>>
    /\ out = <<>>
    /\ DmxIdle

Apply(f, r) ==
    /\ pc = "call"
    /\ fn = f
    /\ res' = r
    /\ pc' = "done"
    /\ UNCHANGED <<fn, arg>>
    /\ UNCHANGED serVars
    /\ UNCHANGED dmxVars

CallComputeCRC32 == Apply("computeCRC32", computeCRC32(arg))

CallPsiTableType == Apply("psiTableType", psiTableType(arg))

CallParsePSISectionHeader ==
    Apply("parsePSISectionHeader", parsePSISectionHeader(arg[1], arg[2]))

CallParsePSISection == Apply("parsePSISection", parsePSISection(arg[1], arg[2]))

CallParsePSIData == Apply("parsePSIData", parsePSIData(arg))

CallToData == Apply("toData", toData(arg[1], arg[2], arg[3]))

CallIsPSIPayload == Apply("IsPSIPayload", IsPSIPayload(arg[1], arg[2]))

NextFn ==
    \/ CallComputeCRC32
    \/ CallPsiTableType
    \/ CallParsePSISectionHeader
    \/ CallParsePSISection
    \/ CallParsePSIData
    \/ CallToData
    \/ CallIsPSIPayload

SpecFn == InitFn /\ [][NextFn]_vars

---------------------------------------------------------------------------
(* Parsing and serialising back: a buffer is parsed, the caller may then   *)
(* overwrite it or edit what was parsed, and what was parsed is written    *)
(* into a second buffer.                                                   *)

\* most descriptors in an enumerated descriptor loop
MaxDescriptors == 2

\* descriptors: tag, length, body
SampleDescriptors ==
    {<<\h52, 1, \h10>>,                  \* stream identifier
     <<\h52, 3, \h01, \h02, \h03>>,      \* its decoder reads 1 byte of the 3
     <<\h28, 1, \h42>>,                  \* AVC video: its decoder reads 4 bytes
     <<\h0A, 4, \h65, \h6E, \h67, \h00>>, \* ISO 639 language and audio type
     <<\h80, 2, \hAA, \hBB>>,            \* user defined
     <<\h7C, 2, \h2E, \h00>>,            \* no decoder for this tag
     <<\hFD, 0>>,                        \* length 0
     <<\h45, 3, \h01, \h01, \h25>>,      \* VBI data, EBU teletext
     <<\h45, 3, \h09, \h01, \h25>>}      \* VBI data, a reserved service ID

\* descriptors whose decoder loops over items, the body one byte longer
\* than a whole number of items
ItemLoopDescriptors ==
    {<<\h54, 3, \h11, \h22, \h33>>,                              \* content
     <<\h55, 5, \h46, \h52, \h41, \h05, \h00>>,                  \* parental rating
     <<\h59, 9, \h65, \h6E, \h67, \h10, 0, 1, 0, 2, \h00>>,      \* subtitling
     <<\h56, 6, \h65, \h6E, \h67, \h09, \h88, \h00>>,            \* teletext
     <<\h46, 5, \h65, \h6E, \h67, \h09, \h88>>,                  \* VBI teletext
     <<\h58, 14, \h46, \h52, \h41, \h02, \h01, \h00, \hC0, \h79, \h12, \h45, \h00,
       \h02, \h00, \h00>>,                                       \* local time offset
     <<\h4E, 9, \h00, \h65, \h6E, \h67, 3, 1, \h41, 0, 0>>,       \* extended event
     <<\h4E, 9, \h00, \h65, \h6E, \h67, 2, 1, \h41, 0, 0>>,       \* its item overshoots
     <<\h45, 6, \h01, 2, \h25, \h26, \h09, 0>>,                   \* VBI data
     <<\h45, 4, \h01, 3, \h25, \h26>>,                           \* its service overshoots
     <<\h45, 3, \h00, 1, \h25>>}                                 \* a reserved service ID

\* descriptors whose declared length ends in front of the bytes that their
\* inner length byte counts
ShortDeclaredDescriptors ==
    {<<\h48, 2, \h01, 2>>,                    \* service: type, provider length 2
     <<\h4D, 4, \h65, \h6E, \h67, 2>>}        \* short event: language, name length 2

\* a descriptor with a body of n bytes
LongDescriptor(tag, n) == <<tag, n>> \o [k \in 1..n |-> k % 256]

\* a descriptor loop that declares length bytes of descriptors
descriptorLoopBytes(length, ds) ==
    <<\hF0 + (length \div 256), length % 256>> \o Flatten(ds)

\* a loop at offset off of a buffer: the declared length is that of the
\* descriptors, one less or one more
DescriptorInputs ==
    UNION {{<<filler \o descriptorLoopBytes(length, ds) \o tail, Len(filler)>> :
                filler \in {<<>>, <<\h47>>},
                length \in {n \in {Len(Flatten(ds)) - 1, Len(Flatten(ds)),
                                   Len(Flatten(ds)) + 1} : n >= 0},
                tail \in {<<>>, <<\hFF, \hFF, \hFF>>}} :
           ds \in SeqsUpTo(SampleDescriptors, MaxDescriptors)}
    \cup {<<descriptorLoopBytes(n + 2, <<LongDescriptor(tag, n)>>), 0>> :
            tag \in {\h7C, \h80}, n \in {253, 254, 255}}
    \cup {<<descriptorLoopBytes(Len(d), <<d>>) \o tail, 0>> :
            d \in ItemLoopDescriptors, tail \in {<<>>, <<\hFF, \hFF, \hFF>>}}
    \cup {<<descriptorLoopBytes(Len(d), <<d>>) \o <<\h41, \h42, \h00>>, 0>> :
            d \in ShortDeclaredDescriptors}

\* a PAT section whose reserved bits are zeros
PATReservedZero ==
    sectionWithCRC(<<\h00, \h80, \h0D, \h00, \h01, \h01, \h00, \h00, \h00, \h01, \h01, \h00>>,
        computeCRC32(<<\h00, \h80, \h0D, \h00, \h01, \h01, \h00, \h00, \h00, \h01, \h01,
                       \h00>>).o, "good")

\* a PMT section with program descriptors and a stream with descriptors
PMTWithDescriptors ==
    MkSection(\h02, SyntaxHeaderBytes
                    \o <<\hE1, \h00>> \o descriptorLoopBytes(4, <<<<\h80, 2, \hAA, \hBB>>>>)
                    \o <<\h1B, \hE1, \h11>>
                    \o descriptorLoopBytes(8, <<<<\h52, 3, \h01, \h02, \h03>>,
                                                <<\h28, 1, \h42>>>>), "good")

RoundTripSections ==
    {PATMultiProgram, PMTSinglePES, PMTWithDescriptors,
     MkSection(\h00, SampleBody(\h00), "good"),
     MkSection(\h02, SampleBody(\h02), "good"),
     <<\h00, \hB0, \h00>>, PATReservedZero}

\* PSI payloads: pointer field 0, sections out of S, stuffing
PayloadsOf(S) ==
    {<<0>> \o Flatten(ss) \o [k \in 1..n |-> \hFF] :
        ss \in SeqsUpTo(S, MaxSections) \ {<<>>},
        n \in {0, 1, 5}}

RoundTripInputs == PayloadsOf(RoundTripSections)

\* a packet of the PID whose payload is a PSI payload, stuffed to 188 bytes
PSIPacket(header, payload) ==
    <<syncByte>> \o header \o payload \o [k \in 1..(184 - Len(payload)) |-> \hFF]

\* the headers of the packets of TestSerialisePATData and TestSerialisePMTData,
\* and one with every flag and every bit of the PID set
PSIPacketHeaders ==
    {<<\h40, \h00, \h18>>, <<\h41, \h01, \h1A>>, <<\h50, \h00, \h10>>,
     <<\hFF, \hFF, \hDF>>}

PacketsOf(S) == {PSIPacket(h, <<0>> \o s) : h \in PSIPacketHeaders, s \in S}

PacketInputs == PacketsOf(RoundTripSections)

\* a 188-byte packet: sync byte, header, adaptation field, and a payload
\* that fills what is left
TSPacket(header, af) ==
    <<syncByte>> \o header \o af \o [k \in 1..(184 - Len(af)) |-> (k * 7) % 256]

\* an adaptation field of flags and optional fields, with n stuffing bytes
StuffedField(body, n) == <<Len(body) + n>> \o body \o [k \in 1..n |-> \hFF]

\* pcrBytes (descriptor.go:1639-1646), base and extension 0, and all ones
SamplePCRs == {<<\hAA, \hAA, \hAA, \hAA, \hFF, \h55>>, <<0, 0, 0, 0, \h7E, 0>>,
               <<\hFF, \hFF, \hFF, \hFF, \hFF, \hFF>>}

\* packetAdaptationFieldBytes (descriptor.go:1574-1604) without its length
\* byte and its stuffing
AllFieldsBody ==
    <<\hFF, \hAA, \hAA, \hAA, \hAA, \hFF, \h55, \hAA, \hAA, \hAA, \hAA, \hFF, \h55,
      2, 4, \h74, \h65, \h73, \h74,
      11, \hFF, \hAA, \hAA, \hEA, \hAA, \hAA, \h2B, \h55, \h55, \h55, \h55>>

\* flags and optional fields: none, PCR, OPCR with random access, splice
\* countdown, private data, an empty extension, all of them
SampleFieldBodies ==
    {<<0>>, <<\h04, 2>>, <<\h02, 4, \h74, \h65, \h73, \h74>>, <<\h02, 0>>,
     <<\h01, 0>>, AllFieldsBody}
    \cup {<<\h10>> \o c : c \in SamplePCRs}
    \cup {<<\h48>> \o c : c \in SamplePCRs}
    \cup {<<\h18>> \o c \o d : c, d \in SamplePCRs}

\* without stuffing, with some, and filling the packet
SampleAdaptationFields ==
    {<<0>>} \cup UNION {{StuffedField(body, n) : n \in {0, 5, 183 - Len(body)}} :
                          body \in SampleFieldBodies}

\* adaptation field and payload (control 11), or the adaptation field alone
\* (control 10) when it fills the packet
AdaptationHeaders(af) ==
    IF Len(af) = 184 THEN {<<\h00, \h64, \h27>>, <<\hFF, \hFF, \hEF>>}
                     ELSE {<<\h40, \h64, \h37>>, <<\hFF, \hFF, \hFF>>}

\* the packet of TestParseSerialisePacketWithAdaptationField,
\* descriptor.go:1624: 144 stuffing bytes, then a PMT section
PacketStuffedPMT ==
    <<syncByte, \h40, \h64, \h37>> \o StuffedField(<<0>>, 144)
    \o <<\h00, \h02, \hB0, \h22, \h00, \h01, \hC1, \h00, \h00, \hE0, \h65,
      \hF0, \h00, \h1B, \hE0, \h65, \hF0, \h06, \h28, \h04, \h64, \h00,
      \h20, \h00, \h03, \hE0, \h66, \hF0, \h00, \h03, \hE0, \hC8, \hF0,
      \h00, \h63, \h97, \h62, \hBF>>

\* valid packets: those without adaptation field, and those with one whose
\* reserved bits are ones and whose stuffing is 0xFF
ValidPackets ==
    PacketInputs \cup {PacketStuffedPMT}
    \cup UNION {{TSPacket(h, af) : h \in AdaptationHeaders(af)} :
                  af \in SampleAdaptationFields}

\* packets that parse but are not what a multiplexer writes: reserved bits of
\* the clock reference not set, stuffing that is not 0xFF
NonCanonicalPackets ==
    {TSPacket(<<\h40, \h64, \h37>>, af) :
        af \in {<<7, \h10, \hAA, \hAA, \hAA, \hAA, \h81, \h55>>,
                <<7, \h10, 0, 0, 0, 0, 0, 0>>,
                <<3, 0, 0, 0>>, <<2, 0, \h47>>}}

WholePacketInputs == ValidPackets \cup NonCanonicalPackets

\* sections to serialise: those of the function harness that parse
SerialiseSectionInputs ==
    {<<sec, 0>> : sec \in SampleSections \cup RoundTripSections}

SerNames == {"parseDescriptors", "parsePSIData", "parsePSISection", "ParsePacket",
             "parsePacket"}

SerInputs(f) ==
    CASE f = "parseDescriptors" -> DescriptorInputs
      [] f = "parsePSIData"     -> RoundTripInputs
      [] f = "parsePSISection"  -> SerialiseSectionInputs
      [] f = "ParsePacket"      -> PacketInputs
      [] f = "parsePacket"      -> WholePacketInputs

\* the buffer an input is parsed from
BufferOf(f, a) == IF f \in {"parseDescriptors", "parsePSISection"} THEN a[1] ELSE a

\* a buffer of n bytes to serialise into
Room(n) == [k \in 1..n |-> \hCC]

InitSer ==
    /\ fn \in SerNames
    /\ arg \in SerInputs(fn)
    /\ res = <<>>
    /\ pc = "call"
    /\ buf = BufferOf(fn, arg)
    /\ out = <<>>
    /\ DmxIdle

Called(f) == pc = "call" /\ fn = f

Parsed(r, next) ==
    /\ res' = r
    /\ pc' = next
    /\ UNCHANGED <<fn, arg, buf, out>>
    /\ UNCHANGED dmxVars

\* a call of parseDescriptors that never returns leaves the caller where it is
ParseDescriptors ==
    /\ Called("parseDescriptors")
    /\ \E r \in {parseDescriptors(arg[1], arg[2])} :
          Parsed(r, IF r.err = Diverges THEN "diverged" ELSE "parsed")

ParsePSIData ==
    /\ Called("parsePSIData")
    /\ \E r \in {parsePSIData(arg)} : Parsed(r, "parsed")

ParsePSISection ==
    /\ Called("parsePSISection")
    /\ \E r \in {parsePSISection(arg[1], arg[2])} : Parsed(r, "parsed")

\* ParsePacket and ParsePSIPacket
ParsePacket ==
    /\ Called("ParsePacket")
    /\ \E p \in {parsePacket(arg)} :
          Parsed([err |-> p.err, p |-> p.p,
                  psi |-> IF p.err = NoErr THEN ParsePSIPacket(p.p) ELSE <<>>],
                 "parsed")

\* parsePacket alone
ParseWholePacket ==
    /\ Called("parsePacket")
    /\ \E p \in {parsePacket(arg)} : Parsed(p, "parsed")

\* the caller reads the next input into the buffer it has parsed from
ReuseBuffer ==
    /\ pc = "parsed"
    /\ fn \in {"parseDescriptors", "parsePSIData"}
    /\ buf' = [k \in 1..Len(buf) |-> 255 - buf[k]]
    /\ pc' = "reused"
    /\ UNCHANGED <<fn, arg, res, out>>
    /\ UNCHANGED dmxVars

\* the caller sets the CRC32 field of the parsed section
EditSection ==
    /\ pc = "parsed"
    /\ fn = "parsePSISection"
    /\ res.err = NoErr
    /\ \E c \in {U32Zero, U32(\hDEAD, \hBEEF)} :
          res' = [res EXCEPT !.s.CRC32 = c]
    /\ pc' = "edited"
    /\ UNCHANGED <<fn, arg, buf, out>>
    /\ UNCHANGED dmxVars

\* a Serialise call has returned o and left what it serialised as r
Serialised(o, r) ==
    /\ out' = o
    /\ res' = r
    /\ pc' = "serialised"
    /\ UNCHANGED <<fn, arg, buf>>
    /\ UNCHANGED dmxVars

\* Descriptor.Serialise of the k-th descriptor into a buffer of some size
SerialiseDescriptor ==
    /\ pc \in {"parsed", "reused"}
    /\ fn = "parseDescriptors"
    /\ res.err = NoErr
    /\ \E k \in 1..Len(res.o) :
       \E room \in {2, res.o[k].Length + 1, res.o[k].Length + 2, res.o[k].Length + 4} :
          Serialised([k |-> k, r |-> DescriptorSerialise(res.o[k], buf, Room(room))],
                     res)

\* PSIData.Serialise into a buffer of the size of the payload, or smaller
SerialisePSIData ==
    /\ pc \in {"parsed", "reused"}
    /\ fn = "parsePSIData"
    /\ res.err = NoErr
    /\ \E room \in {Len(arg), Len(arg) - 2, 1} :
       \E r \in {PSIDataSerialise(res.d, buf, Room(room))} :
          Serialised([k |-> 0, r |-> r],
                     [res EXCEPT !.d = psiDataSerialised(res.d, buf, Room(room))])

\* the buffer sizes a section is serialised into: room to spare, and down to
\* less than the header
SectionRooms(n) == {k \in {n + 8, n, n - 1, n - 3, n - 4, n - 5, 4, 3} : k >= 0}

\* PSISection.Serialise into a buffer of some size
SerialiseSection ==
    /\ pc \in {"parsed", "edited"}
    /\ fn = "parsePSISection"
    /\ res.err = NoErr
    /\ \E room \in SectionRooms(Len(arg[1])) :
       \E r \in {PSISectionSerialise(res.s, buf, Room(room))} :
          Serialised([k |-> 0, r |-> r],
                     [res EXCEPT !.s = sectionSerialised(res.s, buf, Room(room))])

\* the packet without its payload, then the PSI data behind it
\* (data_psi_serialise_test.go:52-59)
packetThenPSI(h, d, mem) ==
    IF h.err # NoErr THEN h ELSE Then(h, PSIDataSerialise(d, mem, Rest(h.b, h.n)))

\* the packet header fills the first four bytes of the buffer
psiOfPacketSerialised(h, d, mem) ==
    IF h.err # NoErr THEN d ELSE psiDataSerialised(d, mem, Rest(h.b, h.n))

SerialisePacket ==
    /\ pc = "parsed"
    /\ fn = "ParsePacket"
    /\ res.err = NoErr
    /\ res.psi.err = NoErr
    /\ \E h \in {PacketSerialise([res.p EXCEPT !.Payload = <<>>], Room(Len(arg)))} :
          Serialised([k |-> 0, r |-> packetThenPSI(h, res.psi.d, buf)],
                     [res EXCEPT !.psi.d = psiOfPacketSerialised(h, res.psi.d, buf)])

\* Packet.Serialise of the parsed packet into a buffer of 188 bytes, or of
\* one less
SerialiseWholePacket ==
    /\ pc = "parsed"
    /\ fn = "parsePacket"
    /\ res.err = NoErr
    /\ \E room \in {Len(arg), Len(arg) - 1} :
          Serialised([k |-> 0, r |-> PacketSerialise(res.p, Room(room))], res)

\* the packet that was written is parsed again
ReparsePacket ==
    /\ pc = "serialised"
    /\ fn = "parsePacket"
    /\ out.r.err = NoErr
    /\ \E r \in {parsePacket(out.r.b)} :
          out' = [k |-> 1, r |-> out.r, again |-> r]
    /\ pc' = "reparsed"
    /\ UNCHANGED <<fn, arg, res, buf>>
    /\ UNCHANGED dmxVars

\* what Serialise has written is parsed in turn
ReparseSection ==
    /\ pc = "serialised"
    /\ fn = "parsePSISection"
    /\ out.r.err = NoErr
    /\ ~out.r.panic
    /\ \E r \in {parsePSISection(SubSeq(out.r.b, 1, out.r.n), 0)} :
          out' = [k |-> 1, r |-> out.r, again |-> r]
    /\ pc' = "reparsed"
    /\ UNCHANGED <<fn, arg, res, buf>>
    /\ UNCHANGED dmxVars

NextSer ==
    \/ ParseDescriptors
    \/ ParsePSIData
    \/ ParsePSISection
    \/ ParsePacket
    \/ ReuseBuffer
    \/ EditSection
    \/ SerialiseDescriptor
    \/ SerialisePSIData
    \/ SerialiseSection
    \/ SerialisePacket
    \/ ReparseSection
    \/ ParseWholePacket
    \/ SerialiseWholePacket
    \/ ReparsePacket

SpecSer == InitSer /\ [][NextSer]_vars

---------------------------------------------------------------------------
(* The stages in front of the section engine.  Packet, PacketPool,         *)
(* ParseData, IsPSIPayload, isPESPayload and the PES parser are not among  *)
(* the source files; they are written from the packet pool, classifier and *)
(* PES parser sections of the specification.  A packet of the stream is    *)
(* named by its position in the stream, which also serves as the pointer   *)
(* to it (Data.FirstPacket).                                               *)

\* a packet as far as the demuxer looks at it
Pkt(pid, pusi, payload) == [pid |-> pid, pusi |-> pusi, payload |-> payload]

\* the pool's state is a function from the tracked PIDs to the packets
\* accumulated for each
NewPacketPool == <<>>

PoolResult(pool, ps) == [pool |-> pool, ps |-> ps]

PoolSet(pool, pid, ps) ==
    [q \in (DOMAIN pool) \cup {pid} |-> IF q = pid THEN ps ELSE pool[q]]

\* add(packet): an untracked PID or a set PUSI flushes what the PID has
\* accumulated and starts a new buffer with this packet; otherwise the
\* packet is appended and nothing is emitted
PoolAdd(pool, ps, i) ==
    IF ps[i].pid \notin DOMAIN pool
    THEN PoolResult(PoolSet(pool, ps[i].pid, <<i>>), <<>>)
    ELSE IF ps[i].pusi
    THEN PoolResult(PoolSet(pool, ps[i].pid, <<i>>), pool[ps[i].pid])
    ELSE PoolResult(PoolSet(pool, ps[i].pid, Append(pool[ps[i].pid], i)), <<>>)

MinPID(pool) == CHOOSE q \in DOMAIN pool : \A o \in DOMAIN pool : q <= o

\* dump(): the buffer of the lowest tracked PID, removed from the pool;
\* nothing once the pool is empty
PoolDump(pool) ==
    IF DOMAIN pool = {}
    THEN PoolResult(pool, <<>>)
    ELSE PoolResult([q \in (DOMAIN pool) \ {MinPID(pool)} |-> pool[q]],
                    pool[MinPID(pool)])

NewProgramMap == <<>>

\* ProgramMap.Set
ProgramMapSet(pm, pid, number) ==
    [q \in (DOMAIN pm) \cup {pid} |-> IF q = pid THEN number ELSE pm[q]]

\* the PES start-code prefix 00 00 01
isPESPayload(payload) ==
    /\ Len(payload) >= 3
    /\ payload[1] = 0
    /\ payload[2] = 0
    /\ payload[3] = 1

NilData == [kind |-> "nil", tbl |-> NilTable, FirstPacket |-> 0, PID |-> 0]

\* the PES parser as far as a Data is concerned: start code, stream ID and
\* the 16-bit PES packet length
parsePESData(payload) ==
    IF ~HasBytes(payload, 0, 6)
    THEN [err |-> Err("ShortRead"), d |-> NilTable]
    ELSE [err |-> NoErr,
          d   |-> Table("PES", payload[4], U16(payload[5], payload[6]))]

DataResult(err, panic, ds) == [err |-> err, panic |-> panic, ds |-> ds]

\* the payload of a group: its packets' payloads, concatenated
RECURSIVE GroupPayload(_, _)
GroupPayload(ps, group) ==
    IF group = <<>> THEN <<>>
    ELSE ps[Head(group)].payload \o GroupPayload(ps, Tail(group))

psiDataToData(r, units) ==
    IF r.err # NoErr THEN DataResult(r.err, FALSE, <<>>)
    ELSE DataResult(NoErr, units.panic, IF units.panic THEN <<>> ELSE units.ds)

parsedPSI(r, firstPacket, pid) == psiDataToData(r, toData(r.d, firstPacket, pid))

parsedPES(r, firstPacket, pid) ==
    IF r.err # NoErr THEN DataResult(r.err, FALSE, <<>>)
    ELSE DataResult(NoErr, FALSE, <<NewData("PES", r.d, firstPacket, pid)>>)

parsePayload(payload, firstPacket, pid, pm) ==
    IF pid = PIDCAT THEN DataResult(NoErr, FALSE, <<>>)
    ELSE IF IsPSIPayload(pid, pm) THEN parsedPSI(parsePSIData(payload), firstPacket, pid)
    ELSE IF isPESPayload(payload) THEN parsedPES(parsePESData(payload), firstPacket, pid)
    ELSE DataResult(NoErr, FALSE, <<>>)

\* no packets parser: the nil func
NilParser == [isNil |-> TRUE]

\* a PacketsParser, part_000:126-128: it claims the groups of the PIDs in
\* skip with one unit of its own each, and fails on those in fail
PacketsParser(skip, fail) == [isNil |-> FALSE, skip |-> skip, fail |-> fail]

\* the unit a packets parser makes of a group: no table, no PES
CustomData(firstPacket, pid) == NewData("Custom", <<>>, firstPacket, pid)

ErrCustomParser == Err("custom packets parser failed")

\* prs(ps): (ds, skip, err)
callParser(prs, firstPacket, pid) ==
    [ds   |-> IF pid \in prs.skip \ prs.fail THEN <<CustomData(firstPacket, pid)>>
                                              ELSE <<>>,
     skip |-> pid \in prs.skip,
     err  |-> IF pid \in prs.fail THEN ErrCustomParser ELSE NoErr]

\* the default classification: the group's PID is that of its first packet;
\* CAT is ignored, PSI goes to parsePSIData and toData, a PES start code to
\* the PES parser, anything else yields nothing
parseDefault(ps, group, pm) ==
    parsePayload(GroupPayload(ps, group), group[1], ps[group[1]].pid, pm)

\* what the packets parser has returned decides: its units and its error
\* when it says skip, the default classification otherwise
afterCustomParser(ps, group, pm, r) ==
    IF r.skip THEN DataResult(r.err, FALSE, r.ds)
    ELSE parseDefault(ps, group, pm)

\* ParseData(ps, prs, pm): the packets parser first, when there is one
ParseData(ps, group, prs, pm) ==
    IF prs.isNil THEN parseDefault(ps, group, pm)
    ELSE afterCustomParser(ps, group, pm, callParser(prs, group[1], ps[group[1]].pid))

---------------------------------------------------------------------------
(* The demuxer: Demuxer.NextData and Demuxer.updateData                    *)

\* a program map that takes every program of a PAT, program 0 included
RECURSIVE setProgramsAll(_, _, _)
setProgramsAll(pm, programs, k) ==
    IF k > Len(programs) THEN pm
    ELSE setProgramsAll(ProgramMapSet(pm, programs[k].ProgramMapID,
                                      programs[k].ProgramNumber),
                        programs, k + 1)

\* the program map after the programs of a PAT from the k-th on
RECURSIVE setPrograms(_, _, _)
setPrograms(pm, programs, k) ==
    IF k > Len(programs) THEN pm
    ELSE setPrograms(IF programs[k].ProgramNumber > 0
                     THEN ProgramMapSet(pm, programs[k].ProgramMapID,
                                        programs[k].ProgramNumber)
                     ELSE pm,
                     programs, k + 1)

\* the program map after the data units from the k-th on
RECURSIVE updateProgramMap(_, _, _)
updateProgramMap(pm, ds, k) ==
    IF k > Len(ds) THEN pm
    ELSE updateProgramMap(IF ds[k].kind = "PAT"
                          THEN setPrograms(pm, ds[k].tbl.Programs, 1)
                          ELSE pm,
                          ds, k + 1)

\* an updateData that buffers all of ds, the returned unit included
updateDataKeepFirst(buffer, pm, ds) ==
    IF Len(ds) > 0
    THEN [d |-> ds[1], dataBuffer |-> buffer \o ds,
          programMap |-> updateProgramMap(pm, ds, 1)]
    ELSE [d |-> NilData, dataBuffer |-> buffer, programMap |-> pm]

\* updateData: returns d and the demuxer fields it has written
updateData(buffer, pm, ds) ==
    IF Len(ds) > 0
    THEN [d |-> ds[1], dataBuffer |-> buffer \o Tail(ds),
          programMap |-> updateProgramMap(pm, ds, 1)]
    ELSE [d |-> NilData, dataBuffer |-> buffer, programMap |-> pm]

ErrNoMorePackets == Err("NoMorePackets")

\* fmt.Errorf("...: %w", err): an error that wraps err
Errorf(msg, err) == [kind |-> "Wrapped", a |-> msg, b |-> err]

\* errors.Is, for the errors of this model: err is target or wraps it
ErrorsIs(err, target) == err = target \/ (err.kind = "Wrapped" /\ err.b = target)

\* the demuxer in the middle of a NextData call; parsed and emitted only
\* observe the call: the groups handed to ParseData during the call, and all
\* groups the pool has emitted, each with the packet that caused it (0: dump)
Dmx(p, pool, buffer, pm, ctx, prs, parsed, emitted) ==
    [pos |-> p, packetPool |-> pool, dataBuffer |-> buffer, programMap |-> pm,
     ctx |-> ctx, optPacketsParser |-> prs, parsed |-> parsed, emitted |-> emitted]

\* how a NextData call ends: it returns (d, err) from the packet loop
\* ("midstream") or from the dump loop ("dump"), or it panics
Outcome(dmx, d, err, panic, phase) ==
    [dmx |-> dmx, d |-> d, err |-> err, panic |-> panic, phase |-> phase]

\* lines 225-227: NextPacket has failed with something else than
\* ErrNoMorePackets
fetchFailed(dmx, err) ==
    Outcome(dmx, NilData, Errorf("astits: fetching next packet failed", err), FALSE,
            "midstream")

\* the demuxer after the pool has handed out group
withGroup(dmx, a, cause) ==
    [dmx EXCEPT !.packetPool = a.pool,
                !.parsed = Append(@, a.ps),
                !.emitted = Append(@, [cause |-> cause, pkts |-> a.ps])]

withData(dmx, u) ==
    [dmx EXCEPT !.dataBuffer = u.dataBuffer, !.programMap = u.programMap]

RECURSIVE dumpLoop(_, _, _)
\* lines 218-222
afterDumpUpdate(ps, dmx, u) ==
    IF u.d # NilData
    THEN Outcome(withData(dmx, u), u.d, NoErr, FALSE, "dump")
    ELSE dumpLoop(ps, dmx, NoErr)

\* lines 212-222: err is the named result of NextData; a failed ParseData
\* leaves its error in it and goes on with the next group
afterDumpParse(ps, dmx, r) ==
    IF r.panic THEN Outcome(dmx, NilData, NoErr, TRUE, "dump")
    ELSE IF r.err # NoErr THEN dumpLoop(ps, dmx, r.err)
    ELSE afterDumpUpdate(ps, dmx, updateData(dmx.dataBuffer, dmx.programMap, r.ds))

\* a dump loop that calls ParseData without the packets parser
afterDumpNoParser(ps, dmx, err, a) ==
    IF a.ps = <<>>
    THEN Outcome(dmx, NilData, err, FALSE, "dump")
    ELSE afterDumpParse(ps, withGroup(dmx, a, 0),
                        ParseData(ps, a.ps, NilParser, dmx.programMap))

\* lines 207-224
afterDump(ps, dmx, err, a) ==
    IF a.ps = <<>>
    THEN Outcome(dmx, NilData, err, FALSE, "dump")
    ELSE afterDumpParse(ps, withGroup(dmx, a, 0), ParseData(ps, a.ps, dmx.optPacketsParser, dmx.programMap))

\* the dump loop, lines 206-224, entered with err = ErrNoMorePackets
dumpLoop(ps, dmx, err) == afterDump(ps, dmx, err, PoolDump(dmx.packetPool))

RECURSIVE packetLoop(_, _)
\* lines 242-244
afterUpdateData(ps, dmx, u) ==
    IF u.d # NilData
    THEN Outcome(withData(dmx, u), u.d, NoErr, FALSE, "midstream")
    ELSE packetLoop(ps, dmx)

\* lines 236-244
afterParseData(ps, dmx, r) ==
    IF r.panic THEN Outcome(dmx, NilData, NoErr, TRUE, "midstream")
    ELSE IF r.err # NoErr
    THEN Outcome(dmx, NilData, Errorf("astits: building new data failed", r.err), FALSE,
                 "midstream")
    ELSE afterUpdateData(ps, dmx, updateData(dmx.dataBuffer, dmx.programMap, r.ds))

\* a packet loop that takes what the pool holds as complete whenever a
\* packet completes nothing
afterAddEager(ps, dmx, a) ==
    IF a.ps = <<>>
    THEN dumpLoop(ps, [dmx EXCEPT !.packetPool = a.pool], ErrNoMorePackets)
    ELSE afterParseData(ps, withGroup(dmx, a, dmx.pos),
                        ParseData(ps, a.ps, dmx.optPacketsParser, dmx.programMap))

\* lines 231-244, with a the outcome of packetPool.Add
afterAdd(ps, dmx, a) ==
    IF a.ps = <<>>
    THEN packetLoop(ps, [dmx EXCEPT !.packetPool = a.pool])
    ELSE afterParseData(ps, withGroup(dmx, a, dmx.pos),
                        ParseData(ps, a.ps, dmx.optPacketsParser, dmx.programMap))

\* a packet loop that takes the stream to end one packet early
packetLoopOffByOne(ps, dmx) ==
    IF dmx.ctx # NoErr THEN fetchFailed(dmx, dmx.ctx)
    ELSE IF dmx.pos >= Len(ps) - 1
    THEN dumpLoop(ps, dmx, ErrNoMorePackets)
    ELSE afterAdd(ps, [dmx EXCEPT !.pos = @ + 1],
                  PoolAdd(dmx.packetPool, ps, dmx.pos + 1))

\* a packet loop whose NextPacket never looks at the context
packetLoopNoCtx(ps, dmx) ==
    IF dmx.pos >= Len(ps)
    THEN dumpLoop(ps, dmx, ErrNoMorePackets)
    ELSE afterAdd(ps, [dmx EXCEPT !.pos = @ + 1],
                  PoolAdd(dmx.packetPool, ps, dmx.pos + 1))

\* the packet loop, lines 201-245: NextPacket, lines 162-186, fails with the
\* context's error once the context is done; otherwise it yields the packets
\* of the stream in order and then ErrNoMorePackets
packetLoop(ps, dmx) ==
    IF dmx.ctx # NoErr THEN fetchFailed(dmx, dmx.ctx)
    ELSE IF dmx.pos >= Len(ps)
    THEN dumpLoop(ps, dmx, ErrNoMorePackets)
    ELSE afterAdd(ps, [dmx EXCEPT !.pos = @ + 1],
                  PoolAdd(dmx.packetPool, ps, dmx.pos + 1))

---------------------------------------------------------------------------
(* The streams the demuxer is run on                                       *)

MaxStream == 4

PIDPES == \h0100

ProgramBytes(number, pid) ==
    <<number \div 256, number % 256, \hE0 + (pid \div 256), pid % 256>>

\* a PAT section with the given program entries and a right or wrong CRC32
PATSection(programBytes, crc) == MkSection(\h00, SyntaxHeaderBytes \o programBytes, crc)

\* PSI payloads: pointer field 0, sections, one byte of stuffing
PayloadPATOne == <<0>> \o PATSection(ProgramBytes(1, \h101), "good") \o <<\hFF>>

\* two PAT sections in one payload: the first one has program 0 and two
\* programs on the same PID, the second one makes PIDPES a PMT PID
PacketTwoPATs ==
    Pkt(PIDPAT, TRUE,
        <<0>> \o PATSection(ProgramBytes(0, \h10) \o ProgramBytes(1, \h101)
                            \o ProgramBytes(2, \h101), "good")
              \o PATSection(ProgramBytes(3, PIDPES), "good") \o <<\hFF>>)

\* a PES packet
PacketPES == Pkt(PIDPES, TRUE, <<0, 0, 1, \hE0, 0, 0, \h80, 0, 0>>)

Packets ==
    { PacketTwoPATs,
      \* a PAT with a wrong CRC32
      Pkt(PIDPAT, TRUE, <<0>> \o PATSection(ProgramBytes(1, \h101), "bad") \o <<\hFF>>),
      \* a PAT section of length 0
      Pkt(PIDPAT, TRUE, <<0, \h00, \hB0, \h00, \hFF>>),
      \* one PAT over two packets
      Pkt(PIDPAT, TRUE, SubSeq(PayloadPATOne, 1, 8)),
      Pkt(PIDPAT, FALSE, SubSeq(PayloadPATOne, 9, Len(PayloadPATOne))),
      PacketPES }

Streams == SeqsUpTo(Packets, MaxStream)

---------------------------------------------------------------------------
(* The demuxer's specification: one NextData call per step                 *)

Call(d, err) == [d |-> d, err |-> err]

Trace(phase, parsed, emitted, returned) ==
    [phase |-> phase, parsed |-> parsed, emitted |-> emitted, returned |-> returned]

\* New, lines 132-146, on a reader that will deliver the packets of stream
Init ==
    /\ fn = ""
    /\ arg = <<>>
    /\ res = <<>>
    /\ pc = "idle"
    /\ buf = <<>>
    /\ out = <<>>
    /\ stream \in Streams
    /\ pos = 0
    /\ packetPool = NewPacketPool
    /\ dataBuffer = <<>>
    /\ programMap = NewProgramMap
    /\ panicked = FALSE
    /\ ctxErr = NoErr
    /\ ret = Call(NilData, NoErr)
    /\ optPacketsParser = NilParser
    /\ trace = Trace("init", <<>>, <<>>, <<>>)

\* lines 191-195
ReturnBuffered ==
    /\ ret' = Call(dataBuffer[1], NoErr)
    /\ dataBuffer' = Tail(dataBuffer)
    /\ trace' = Trace("buffer", <<>>, trace.emitted, Append(trace.returned, dataBuffer[1]))
    /\ UNCHANGED <<pos, packetPool, programMap, panicked>>

\* the end of a call that went through the packet loop
Return(o) ==
    /\ pos' = o.dmx.pos
    /\ packetPool' = o.dmx.packetPool
    /\ dataBuffer' = o.dmx.dataBuffer
    /\ programMap' = o.dmx.programMap
    /\ panicked' = o.panic
    /\ ret' = IF o.panic THEN ret ELSE Call(o.d, o.err)
    /\ trace' = Trace(o.phase, o.dmx.parsed, o.dmx.emitted,
                      IF o.d # NilData THEN Append(trace.returned, o.d)
                                       ELSE trace.returned)

\* Demuxer.NextData, lines 189-246; a panic ends the program
NextData ==
    /\ ~panicked
    /\ IF Len(dataBuffer) > 0
       THEN ReturnBuffered
       ELSE \E o \in {packetLoop(stream, Dmx(pos, packetPool, dataBuffer, programMap,
                                            ctxErr, optPacketsParser, <<>>,
                                            trace.emitted))} :
                Return(o)
    /\ UNCHANGED <<fn, arg, res, pc, buf, out, stream, ctxErr, optPacketsParser>>

Next == NextData

Spec == Init /\ [][Next]_vars

---------------------------------------------------------------------------
(* The demuxer under cancellation: the context given to New is cancelled,  *)
(* or its deadline passes, between two NextData calls.  ctx.Err() is nil   *)
(* until then and the same error ever after.                               *)

ErrCanceled == Err("context canceled")
ErrDeadlineExceeded == Err("context deadline exceeded")

CtxPackets ==
    {PacketTwoPATs, PacketPES,
     Pkt(PIDPAT, TRUE, SubSeq(PayloadPATOne, 1, 8)),
     Pkt(PIDPAT, FALSE, SubSeq(PayloadPATOne, 9, Len(PayloadPATOne)))}

CtxStreams == SeqsUpTo(CtxPackets, MaxStream)

InitCtx ==
    /\ fn = ""
    /\ arg = <<>>
    /\ res = <<>>
    /\ pc = "idle"
    /\ buf = <<>>
    /\ out = <<>>
    /\ stream \in CtxStreams
    /\ pos = 0
    /\ packetPool = NewPacketPool
    /\ dataBuffer = <<>>
    /\ programMap = NewProgramMap
    /\ panicked = FALSE
    /\ ctxErr = NoErr
    /\ ret = Call(NilData, NoErr)
    /\ optPacketsParser = NilParser
    /\ trace = Trace("init", <<>>, <<>>, <<>>)

\* the caller's cancel function, or the deadline
Cancel ==
    /\ ctxErr = NoErr
    /\ ctxErr' \in {ErrCanceled, ErrDeadlineExceeded}
    /\ UNCHANGED <<fn, arg, res, pc, buf, out, stream, pos, packetPool, dataBuffer,
                   programMap, panicked, ret, optPacketsParser, trace>>

NextCtx == NextData \/ Cancel

SpecCtx == InitCtx /\ [][NextCtx]_vars

---------------------------------------------------------------------------
(* The demuxer with a packets parser: New was given OptPacketsParser(p),   *)
(* lines 131-146 and 156-160.                                              *)

OptPackets ==
    {PacketTwoPATs, PacketPES,
     Pkt(PIDPAT, FALSE, SubSeq(PayloadPATOne, 9, Len(PayloadPATOne)))}

OptStreams == SeqsUpTo(OptPackets, MaxStream)

\* a parser that skips nothing, one that claims the PAT PID, one that claims
\* both PIDs, and one that claims both and fails on the PES PID
CustomParsers ==
    {PacketsParser({}, {}), PacketsParser({PIDPAT}, {}),
     PacketsParser({PIDPAT, PIDPES}, {}), PacketsParser({PIDPAT, PIDPES}, {PIDPES})}

InitOpt ==
    /\ fn = ""
    /\ arg = <<>>
    /\ res = <<>>
    /\ pc = "idle"
    /\ buf = <<>>
    /\ out = <<>>
    /\ stream \in OptStreams
    /\ pos = 0
    /\ packetPool = NewPacketPool
    /\ dataBuffer = <<>>
    /\ programMap = NewProgramMap
    /\ panicked = FALSE
    /\ ctxErr = NoErr
    /\ ret = Call(NilData, NoErr)
    /\ optPacketsParser \in CustomParsers
    /\ trace = Trace("init", <<>>, <<>>, <<>>)

SpecOpt == InitOpt /\ [][NextData]_vars

---------------------------------------------------------------------------
(* The demuxer on a reader that may be rewound.  rewind(dmx.r) is not among *)
(* the source files: it either puts the reader back to its start and       *)
(* returns position 0, or fails and leaves the reader where it is.  res    *)
(* holds what the last Rewind has returned and where it has left the       *)
(* reader; trace observes the calls since the last Rewind.                 *)

ErrRewind == Err("rewinding reader failed")

RewindPackets ==
    {PacketTwoPATs,
     Pkt(PIDPAT, TRUE, SubSeq(PayloadPATOne, 1, 8)),
     Pkt(PIDPAT, FALSE, SubSeq(PayloadPATOne, 9, Len(PayloadPATOne)))}

RewindStreams == SeqsUpTo(RewindPackets, MaxStream)

InitRewind ==
    /\ fn = ""
    /\ arg = <<>>
    /\ res = <<>>
    /\ pc = "idle"
    /\ buf = <<>>
    /\ out = <<>>
    /\ stream \in RewindStreams
    /\ pos = 0
    /\ packetPool = NewPacketPool
    /\ dataBuffer = <<>>
    /\ programMap = NewProgramMap
    /\ panicked = FALSE
    /\ ctxErr = NoErr
    /\ ret = Call(NilData, NoErr)
    /\ optPacketsParser = NilParser
    /\ trace = Trace("init", <<>>, <<>>, <<>>)

\* the end of a Rewind call that has left the reader at position p
Rewound(p, err) ==
    /\ pos' = p
    /\ res' = [n |-> IF err = NoErr THEN p ELSE 0, err |-> err, at |-> p]
    /\ pc' = "rewound"
    /\ trace' = Trace("rewind", <<>>, <<>>, <<>>)
    /\ UNCHANGED <<fn, arg, buf, out, stream, programMap, panicked, ctxErr, ret,
                   optPacketsParser>>

\* a Rewind that resets nothing when the reader cannot be rewound
RewindResetsOnSuccess ==
    /\ ~panicked
    /\ \/ /\ dataBuffer' = <<>>
          /\ packetPool' = NewPacketPool
          /\ Rewound(0, NoErr)
       \/ /\ UNCHANGED <<dataBuffer, packetPool>>
          /\ Rewound(pos, Errorf("astits: rewinding reader failed", ErrRewind))

\* Demuxer.Rewind, lines 270-280
Rewind ==
    /\ ~panicked
    /\ dataBuffer' = <<>>
    /\ packetPool' = NewPacketPool
    /\ \/ Rewound(0, NoErr)
       \/ Rewound(pos, Errorf("astits: rewinding reader failed", ErrRewind))

NextRewind == NextData \/ Rewind

SpecRewind == InitRewind /\ [][NextRewind]_vars

---------------------------------------------------------------------------
(* Properties of the section engine, checked under SpecFn                  *)

Done(f) == pc = "done" /\ fn = f

\* ---- the CRC32 check of parsePSISection.  The section of a call is read
\* off the input bytes: its table ID, its 12-bit length, the offset of its
\* last four bytes, the value stored there and the bytes in front of them.
ArgTableType == psiTableType(arg[1][arg[2] + 1])

ArgSectionLength == (arg[1][arg[2] + 2] % 16) * 256 + arg[1][arg[2] + 3]

ArgSectionsEnd == arg[2] + 3 + ArgSectionLength - 4

ArgStoredCRC32 ==
    U32(arg[1][ArgSectionsEnd + 1] * 256 + arg[1][ArgSectionsEnd + 2],
        arg[1][ArgSectionsEnd + 3] * 256 + arg[1][ArgSectionsEnd + 4])

ArgComputedCRC32 == computeCRC32(SubSeq(arg[1], arg[2] + 1, ArgSectionsEnd)).o

\* the call is about a section of a CRC table type with a length > 0 whose
\* stored CRC32 lies within the buffer
ArgHasCRC32 ==
    /\ Done("parsePSISection")
    /\ Len(arg[1]) >= arg[2] + 3
    /\ ArgTableType \in {"PAT", "PMT", "EIT", "NIT", "TOT", "SDT"}
    /\ ArgSectionLength > 0
    /\ Len(arg[1]) >= ArgSectionsEnd + 4

\* C1: for a section of type PAT, PMT, EIT, NIT, TOT or SDT with section
\* length > 0, parsePSISection returns an error whenever the 4 big-endian
\* bytes at offsetSectionsEnd differ from computeCRC32 of the bytes from the
\* table ID up to offsetSectionsEnd; a CRC32 error names the stored value
\* first and the computed one second, and it is the error returned when
\* nothing else of the section fails; when the two values are equal there is
\* no CRC32 error and a successful call keeps the stored value in CRC32.
C1_CRC32Checked ==
    ArgHasCRC32 =>
        IF ArgStoredCRC32 # ArgComputedCRC32
        THEN /\ res.err # NoErr
             /\ res.err.kind = "CRC32Mismatch"
                    => res.err = ErrCRC32(ArgStoredCRC32, ArgComputedCRC32)
             /\ res.err.kind # "ShortRead" => res.err.kind = "CRC32Mismatch"
        ELSE /\ res.err.kind # "CRC32Mismatch"
             /\ res.err = NoErr => res.s.CRC32 = ArgStoredCRC32

\* a call that returned the CRC32 error for stored 0x00000020, and that
\* would have parsed the section had the CRC32 been right
C1_Mismatch ==
    /\ ArgHasCRC32
    /\ ArgStoredCRC32 = U32(0, \h20)
    /\ ArgStoredCRC32 # ArgComputedCRC32
    /\ res.err = ErrCRC32(ArgStoredCRC32, ArgComputedCRC32)
    /\ ~res.s.Syntax.isNil

\* ---- CRC-32/MPEG-2 by the book: a register of 32 bits, most significant
\* bit first, and the input as a string of bits
RefPoly ==
    <<0,0,0,0, 0,1,0,0, 1,1,0,0, 0,0,0,1, 0,0,0,1, 1,1,0,1, 1,0,1,1, 0,1,1,1>>

RefBit(byte, i) == (byte \div (2 ^ (8 - i))) % 2

RefShift(reg) == [i \in 1..32 |-> IF i = 32 THEN 0 ELSE reg[i + 1]]

RefStep(reg, bit) ==
    IF reg[1] # bit
    THEN [i \in 1..32 |-> (RefShift(reg)[i] + RefPoly[i]) % 2]
    ELSE RefShift(reg)

RECURSIVE RefBits(_, _, _)
RefBits(reg, byte, i) ==
    IF i > 8 THEN reg ELSE RefBits(RefStep(reg, RefBit(byte, i)), byte, i + 1)

RECURSIVE RefBytes(_, _, _)
RefBytesNext(reg, bs, k) ==
    IF reg = <<>> THEN reg ELSE RefBytes(reg, bs, k + 1)

RefBytes(reg, bs, k) ==
    IF k > Len(bs) THEN reg ELSE RefBytesNext(RefBits(reg, bs[k], 1), bs, k)

RECURSIVE RefValue(_, _, _)
RefValue(reg, from, to) ==
    IF from > to THEN 0 ELSE reg[to] + 2 * RefValue(reg, from, to - 1)

RefRegister(reg) == U32(RefValue(reg, 1, 16), RefValue(reg, 17, 32))

RefCRC32(bs) == RefRegister(RefBytes([i \in 1..32 |-> 1], bs, 1))

\* C2: for every byte sequence computeCRC32 returns the CRC-32/MPEG-2 value
\* of the reference (register 0xFFFFFFFF, MSB first, shift left and XOR
\* 0x04C11DB7 when the top bit differs from the input bit, no reflection, no
\* final XOR), never an error, and 0xFFFFFFFF for the empty input; on the
\* sections of the serialisation tests it returns the CRC32 they carry.
C2_CRC32IsMPEG2 ==
    Done("computeCRC32") =>
        /\ res.err = NoErr
        /\ res.o = RefCRC32(arg)
        /\ arg = <<>> => res.o = U32(\hFFFF, \hFFFF)
        /\ arg = SubSeq(PATMultiProgram, 1, 20) => res.o = U32(\hA66D, \h35DA)
        /\ arg = SubSeq(PMTSinglePES, 1, 22) => res.o = U32(\h5F91, \hFC08)

\* computeCRC32 has run on an input with a set top bit whose register top
\* bit was set as well: nothing is XORed at its first bit
C2_Computed ==
    /\ Done("computeCRC32")
    /\ Len(arg) = MaxCRCLen
    /\ arg[1] >= 128
    /\ res.o = RefCRC32(arg)
    /\ res.o # U32(\hFFFF, \hFFFF)

\* ---- the normative table of table IDs
NormativeTableType(id) ==
    IF id = 0 THEN "PAT"
    ELSE IF id = 2 THEN "PMT"
    ELSE IF id \in {64, 65} THEN "NIT"
    ELSE IF id \in {66, 70} THEN "SDT"
    ELSE IF id = 74 THEN "BAT"
    ELSE IF id \in 78..111 THEN "EIT"
    ELSE IF id = 112 THEN "TDT"
    ELSE IF id = 113 THEN "RST"
    ELSE IF id = 114 THEN "ST"
    ELSE IF id = 115 THEN "TOT"
    ELSE IF id = 126 THEN "DIT"
    ELSE IF id = 127 THEN "SIT"
    ELSE IF id = 255 THEN "Null"
    ELSE "Unknown"

\* C3: psiTableType maps every table ID 0..255 to the one table type the
\* normative table gives it, and to Unknown where the table names none.
C3_TableTypeNormative ==
    Done("psiTableType") => arg \in 0..255 /\ res = NormativeTableType(arg)

\* psiTableType has classified the second SDT table ID
C3_Classified == Done("psiTableType") /\ arg = \h46 /\ res = "SDT"

\* ---- the stop rule of parsePSIData
StopTypes == {"Null", "Unknown"}

\* the offset behind the table-ID byte of section k, given the pointer field
\* and the lengths of the sections in front of it
RECURSIVE SectionStart(_, _)
SectionStart(sections, k) ==
    IF k = 1 THEN 0
    ELSE SectionStart(sections, k - 1) + 3 + sections[k - 1].Header.SectionLength

AfterTableID(bs, sections, k) == 1 + bs[1] + SectionStart(sections, k) + 1

\* C4: parsePSIData stops at the first section whose table ID is Null or
\* Unknown: that section is the last element of Sections, it has only its
\* TableID and TableType set, only its table-ID byte is consumed, no error
\* is returned and nothing behind it is parsed.
C4_StopsAtNullOrUnknown ==
    Done("parsePSIData") =>
        \A k \in 1..Len(res.d.Sections) :
            res.d.Sections[k].Header.TableType \in StopTypes =>
                /\ k = Len(res.d.Sections)
                /\ res.err = NoErr
                /\ res.off = AfterTableID(arg, res.d.Sections, k)
                /\ arg[res.off] = res.d.Sections[k].Header.TableID
                /\ res.d.Sections[k] =
                       Section(U32Zero,
                               [NilHeader EXCEPT
                                   !.TableID = res.d.Sections[k].Header.TableID,
                                   !.TableType = res.d.Sections[k].Header.TableType],
                               NilSyntax)

\* parsePSIData has stopped at an unknown table ID behind a parsed section,
\* with a well-formed section left unparsed behind it
C4_Stopped ==
    /\ Done("parsePSIData")
    /\ Len(res.d.Sections) = 2
    /\ res.d.Sections[2].Header.TableType = "Unknown"
    /\ Len(arg) > res.off + 3
    /\ psiTableType(arg[res.off + 1]) = "TOT"

\* ---- the section length.  The call is about a header that lies within the
\* buffer and whose table type does not stop the parsing.
ArgHasHeader ==
    /\ Done("parsePSISectionHeader") \/ Done("parsePSISection")
    /\ Len(arg[1]) >= arg[2] + 3
    /\ ~shouldStopPSIParsing(ArgTableType)

\* C16: a section header with section length 1020 or 1021 is accepted, and one
\* whose 12-bit section length is greater than 1021 makes
\* parsePSISectionHeader and parsePSISection return an error.
C16_MaxSectionLengthEnforced ==
    ArgHasHeader =>
        /\ (fn = "parsePSISectionHeader" /\ ArgSectionLength \in {1020, 1021})
              => res.err = NoErr
        /\ ArgSectionLength > 1021 => res.err # NoErr

\* what parsePSISectionHeader does: every header that lies within the buffer
\* is accepted with the 12 bits of its section length, whatever their value
C16_AnyLengthAccepted ==
    (ArgHasHeader /\ fn = "parsePSISectionHeader") =>
        /\ res.err = NoErr
        /\ res.h.SectionLength = ArgSectionLength
        /\ res.offsetEnd = arg[2] + 3 + ArgSectionLength

\* a TDT section of length 1022 has been accepted by parsePSISection
C16_TooLongAccepted ==
    /\ Done("parsePSISection")
    /\ arg = <<<<\h70, \hB3, \hFE>>, 0>>
    /\ res.err = NoErr
    /\ res.s.Header.SectionLength = 1022

\* C17: for a section of a table type that does not stop the parsing and
\* whose section length is 0, parsePSISection returns no error, stop = false
\* and a section with the header set, a nil Syntax and CRC32 0, and leaves the
\* cursor behind the 3-byte header: nothing behind the header is read, no
\* CRC32 either.
C17_HeaderOnlySection ==
    (ArgHasHeader /\ fn = "parsePSISection" /\ ArgSectionLength = 0) =>
        /\ res.err = NoErr
        /\ ~res.stop
        /\ res.s.Header = parsePSISectionHeader(arg[1], arg[2]).h
        /\ res.s.Header.TableID = arg[1][arg[2] + 1]
        /\ res.s.Header.SectionLength = 0
        /\ res.s.Syntax = NilSyntax
        /\ res.s.CRC32 = U32Zero
        /\ res.off = arg[2] + 3

\* a section of length 0 of a table type with a CRC32, with bytes behind it,
\* has been parsed
C17_HeaderOnlyParsed ==
    /\ ArgHasHeader
    /\ fn = "parsePSISection"
    /\ ArgSectionLength = 0
    /\ hasCRC32(ArgTableType)
    /\ Len(arg[1]) > arg[2] + 3 + 4
    /\ res.s.Syntax.isNil
    /\ res.off = arg[2] + 3

\* C23: on a table ID that is neither Null nor Unknown, with the three
\* header bytes in the buffer, parsePSISectionHeader returns no error, leaves
\* the cursor 3 bytes on, and returns offsetStart = the cursor before the
\* table ID, offsetSectionsStart = offsetStart + 3, offsetEnd =
\* offsetSectionsStart + the 12-bit section length, and offsetSectionsEnd =
\* offsetEnd - 4 for the table types with a CRC32 (PAT, PMT, EIT, NIT, TOT,
\* SDT) and offsetEnd for the others.
C23_HeaderOffsets ==
    (ArgHasHeader /\ fn = "parsePSISectionHeader") =>
        /\ res.err = NoErr
        /\ res.off = arg[2] + 3
        /\ res.offsetStart = arg[2]
        /\ res.offsetSectionsStart = res.offsetStart + 3
        /\ res.offsetEnd = res.offsetSectionsStart + ArgSectionLength
        /\ res.offsetSectionsEnd =
              IF ArgTableType \in {"PAT", "PMT", "EIT", "NIT", "TOT", "SDT"}
              THEN res.offsetEnd - 4 ELSE res.offsetEnd

\* the header of a PMT section of length 1021 has been parsed at offset 1
C23_PMTHeaderAtOffset ==
    /\ Done("parsePSISectionHeader")
    /\ arg = <<<<\h47, \h02, \hB3, \hFD>>, 1>>
    /\ res.offsetStart = 1
    /\ res.offsetSectionsStart = 4
    /\ res.offsetSectionsEnd = 1021
    /\ res.offsetEnd = 1025

\* ---- PSIData.toData.  The units the claim expects for the sections of a
\* PSI data: one for each section of the six types, in section order, with
\* the section's table, the PID and the first packet.
RECURSIVE ExpectedUnits(_, _, _)
ExpectedUnits(sections, firstPacket, pid) ==
    IF sections = <<>> THEN <<>>
    ELSE (IF Head(sections).Header.TableType \in {"EIT", "NIT", "PAT", "PMT", "SDT", "TOT"}
          THEN <<[kind |-> Head(sections).Header.TableType,
                  tbl |-> Head(sections).Syntax.Data,
                  FirstPacket |-> firstPacket, PID |-> pid]>>
          ELSE <<>>)
         \o ExpectedUnits(Tail(sections), firstPacket, pid)

\* a section of one of the six types that has no syntax section
HasHeaderOnlyUnit(sections) ==
    \E k \in 1..Len(sections) :
        /\ sections[k].Header.TableType \in {"EIT", "NIT", "PAT", "PMT", "SDT", "TOT"}
        /\ sections[k].Syntax.isNil

\* C19: toData returns, in section order, one data unit for each section of
\* type EIT, NIT, PAT, PMT, SDT or TOT, holding that section's table (the
\* table of the section's type), the given PID and the given first packet,
\* and nothing for the sections of the other types.
C19_OneUnitPerSection ==
    Done("toData") =>
        /\ ~res.panic
        /\ res.ds = ExpectedUnits(arg[1].Sections, arg[2], arg[3])
        /\ \A k \in 1..Len(res.ds) : res.ds[k].tbl.table = res.ds[k].kind

\* C19 for PSI data whose sections of the six types all have a syntax
\* section; with a header-only one among them the call panics
C19_OneUnitPerSyntaxSection ==
    Done("toData") =>
        /\ res.panic = HasHeaderOnlyUnit(arg[1].Sections)
        /\ ~res.panic =>
              /\ res.ds = ExpectedUnits(arg[1].Sections, arg[2], arg[3])
              /\ \A k \in 1..Len(res.ds) : res.ds[k].tbl.table = res.ds[k].kind

\* toData has panicked on a PSI data of a header-only PAT section
C19_HeaderOnlyPanics ==
    /\ Done("toData")
    /\ Len(arg[1].Sections) = 2
    /\ arg[1].Sections[1].Header.TableType = "PAT"
    /\ arg[1].Sections[1].Syntax.isNil
    /\ res.panic

\* C25: for every PSI data that parsePSIData returns without error, toData
\* completes without a nil pointer dereference, a header-only section of
\* type EIT, NIT, PAT, PMT, SDT or TOT among its sections included.
C25_ToDataNeverFaults ==
    Done("toData") => ~res.panic

\* toData has faulted on the PSI data of a payload that is one header-only
\* section of each of the six types
C25_HeaderOnlyFaults ==
    \A t \in {\h00, \h02, \h40, \h42, \h4E, \h73} :
        \A d \in {parsePSIData(<<0>> \o SectionHeader(t, \hB0, 0) \o <<\hFF>>)} :
            /\ d.err = NoErr
            /\ d.d.Sections[1].Syntax.isNil
            /\ toData(d.d, 1, 0).panic

\* toData has faulted on a header-only PMT section
C25_HeaderOnlyPMTFaults ==
    /\ Done("toData")
    /\ Len(arg[1].Sections) = 2
    /\ arg[1].Sections[1].Header.TableType = "PMT"
    /\ arg[1].Sections[1].Header.SectionLength = 0
    /\ arg[1].Sections[1].Syntax.isNil
    /\ res.panic

\* ---- IsPSIPayload
\* C20: IsPSIPayload(pid, programMap) is true exactly when pid is 0x0000, one
\* of 0x0010..0x0014, 0x001E, 0x001F, or a PID of the program map; so with an
\* empty program map the PSI PIDs among 0..255 are 0, 16, 17, 18, 19, 20, 30
\* and 31, and a PID is PSI once it is set in the program map, with program
\* number 0 too.
C20_PSIPIDs ==
    Done("IsPSIPayload") =>
        /\ res = (arg[1] \in {\h00, \h10, \h11, \h12, \h13, \h14, \h1E, \h1F}
                    \/ arg[1] \in DOMAIN arg[2])
        /\ (arg[2] = NewProgramMap /\ arg[1] \in 0..255)
              => (res = (arg[1] \in {0, 16, 17, 18, 19, 20, 30, 31}))
        /\ IsPSIPayload(arg[1], ProgramMapSet(arg[2], arg[1], 0))

\* PID 1, set in the program map with program number 0, has been classified
C20_SetPIDIsPSI ==
    /\ Done("IsPSIPayload")
    /\ arg[1] = 1
    /\ arg[2] = ProgramMapSet(ProgramMapSet(NewProgramMap, \h21, 0), 1, 0)
    /\ res

---------------------------------------------------------------------------
(* Properties of the demuxer, checked under Spec.  A property of a NextData *)
(* call is a property of a step: the unprimed variables are the demuxer    *)
(* before the call, the primed ones the demuxer after it.                  *)

\* the last group the call has handed to ParseData
LastParsed == trace'.parsed[Len(trace'.parsed)]

\* what ParseData made of that group; the program map does not change in a
\* call before the group that ends it
LastParse == ParseData(stream, LastParsed, optPacketsParser, programMap)

\* the call ended in the packet loop on a group
EndsMidstream == trace'.phase = "midstream" /\ trace'.parsed # <<>>

\* the call has dropped the group and nothing else: the pool holds the packet
\* that completed it, buffer and program map are as before
GroupDropped(r) ==
    /\ ret' = Call(NilData, Errorf("astits: building new data failed", r.err))
    /\ dataBuffer' = dataBuffer
    /\ programMap' = programMap
    /\ packetPool'[stream[pos'].pid] = <<pos'>>
    /\ \A i \in 1..Len(LastParsed) : LastParsed[i] < pos'

\* r is what ParseData made of the group the call ended on
FailureSurvived(r) == r.panic \/ r.err # NoErr => GroupDropped(r) /\ ~panicked'

ErrorSurvived(r) == ~r.panic /\ r.err # NoErr => GroupDropped(r) /\ ~panicked'

\* C5: a parse failure of a completed mid-stream group never aborts the
\* demuxer: the call reports the error, only the failing group is dropped,
\* data buffer and program map are left as they were, and the program has
\* not ended, so that a further NextData call goes on with the following
\* packets.
C5_FailureNeverAborts ==
    [][EndsMidstream => \A r \in {LastParse} : FailureSurvived(r)]_vars

\* C5, for the failures that ParseData returns as an error
C5_ErrorReported ==
    [][EndsMidstream => \A r \in {LastParse} : ErrorSurvived(r)]_vars

\* the units the call has handed to updateData and got a unit back from
Consumed ==
    IF trace'.phase \in {"midstream", "dump"} /\ trace'.returned # trace.returned
    THEN LastParse.ds
    ELSE <<>>

FirstReturnedOthersBuffered(ds) ==
    Len(ds) > 0 => ret' = Call(ds[1], NoErr) /\ dataBuffer' = Tail(ds)

\* C6: when a group parses into k > 1 units, NextData returns the first and
\* buffers the others in section order, and a call on a non-empty data
\* buffer returns the buffer's head, reads no packet and leaves the pool
\* alone; so the k-1 others come out of the next k-1 calls in order.
C6_Step ==
    IF dataBuffer # <<>>
    THEN /\ ret' = Call(Head(dataBuffer), NoErr)
         /\ dataBuffer' = Tail(dataBuffer)
         /\ pos' = pos
         /\ packetPool' = packetPool
    ELSE \A ds \in {Consumed} : FirstReturnedOthersBuffered(ds)

C6_BufferedFIFO == [][C6_Step]_vars

\* a second unit of a group has been returned from the buffer while the pool
\* held packets and the stream had packets left
C6_Buffered ==
    /\ trace.phase = "buffer"
    /\ Len(trace.returned) >= 2
    /\ trace.returned[Len(trace.returned)].FirstPacket
           = trace.returned[Len(trace.returned) - 1].FirstPacket
    /\ trace.returned[Len(trace.returned)] # trace.returned[Len(trace.returned) - 1]
    /\ DOMAIN packetPool # {}
    /\ pos < Len(stream)

\* the programs of the PATs among data units, in order
RECURSIVE ProgramsOf(_)
ProgramsOf(ds) ==
    IF ds = <<>> THEN <<>>
    ELSE (IF Head(ds).kind = "PAT" THEN Head(ds).tbl.Programs ELSE <<>>)
         \o ProgramsOf(Tail(ds))

\* a PID that no program with a number > 0 names keeps its entry, or its
\* lack of one
OthersUnchanged(programs) ==
    \A pid \in (DOMAIN programMap) \cup (DOMAIN programMap')
               \cup {programs[k].ProgramMapID : k \in 1..Len(programs)} :
        (\A k \in 1..Len(programs) :
            programs[k].ProgramMapID = pid => programs[k].ProgramNumber = 0)
        => /\ pid \in DOMAIN programMap' <=> pid \in DOMAIN programMap
           /\ pid \in DOMAIN programMap => programMap'[pid] = programMap[pid]

\* is program k the last one with a number > 0 on its PID?
LastOnPID(programs, k) ==
    \A j \in (k + 1)..Len(programs) :
        programs[j].ProgramMapID = programs[k].ProgramMapID
            => programs[j].ProgramNumber = 0

EveryProgramMapped(programs) ==
    /\ \A k \in 1..Len(programs) :
           programs[k].ProgramNumber > 0 =>
               /\ programs[k].ProgramMapID \in DOMAIN programMap'
               /\ programMap'[programs[k].ProgramMapID] = programs[k].ProgramNumber
    /\ OthersUnchanged(programs)

LastProgramMapped(programs) ==
    /\ \A k \in 1..Len(programs) :
           programs[k].ProgramNumber > 0 =>
               /\ programs[k].ProgramMapID \in DOMAIN programMap'
               /\ LastOnPID(programs, k) =>
                      programMap'[programs[k].ProgramMapID] = programs[k].ProgramNumber
    /\ OthersUnchanged(programs)

\* C7, as stated: once updateData has run on the group that holds a PAT,
\* the program map has pid -> n for every program (n, pid) of the PAT with
\* n > 0, and a program with number 0 adds or changes nothing.
C7_EveryProgramMapped ==
    [][\A ds \in {Consumed} :
          \A programs \in {ProgramsOf(ds)} : EveryProgramMapped(programs)]_vars

\* C7, amended: the program map is keyed by PID, so of the programs with
\* n > 0 that share a PID the last one (in section order, then in program
\* order) is the one the map holds; every PID of a program with n > 0 has an
\* entry, and a program with number 0 adds or changes nothing.
C7_LastProgramMapped ==
    [][\A ds \in {Consumed} :
          \A programs \in {ProgramsOf(ds)} : LastProgramMapped(programs)]_vars

\* the PAT with program 0 and two programs on PID 0x101 has been returned,
\* the PAT behind it is buffered, and the program map holds the programs of
\* both
C7_Mapped ==
    /\ Len(dataBuffer) = 1
    /\ dataBuffer[1].kind = "PAT"
    /\ ret.d.kind = "PAT"
    /\ Len(ret.d.tbl.Programs) = 3
    /\ DOMAIN programMap = {\h101, PIDPES}
    /\ programMap[\h101] = 2
    /\ programMap[PIDPES] = 3

\* the groups the call has taken from the pool by dump
DumpedGroups ==
    {trace'.emitted[n].pkts :
        n \in {m \in (Len(trace.emitted) + 1)..Len(trace'.emitted) :
                  trace'.emitted[m].cause = 0}}

\* the parse errors of dumped groups
DumpErrors == {ParseData(stream, g, optPacketsParser, programMap).err : g \in DumpedGroups} \ {NoErr}

\* C8: at end of stream NextData dumps the pool group by group and tries to
\* parse each group once; a dumped group that fails to parse is skipped
\* silently: the call never returns the parse error of a dumped group, and
\* the groups behind it are still tried, so that a call that returns no
\* unit leaves the pool empty.
C8_DumpFailuresSilent ==
    [][trace'.phase = "dump" /\ ~panicked' =>
           /\ ret'.err \notin DumpErrors
           /\ ret'.d = NilData => DOMAIN packetPool' = {}]_vars

\* C8 without the error a call returns: a failing dumped group does not stop
\* the dump
C8_DumpGoesOn ==
    [][trace'.phase = "dump" /\ ~panicked' /\ ret'.d = NilData =>
           DOMAIN packetPool' = {}]_vars

Min(S) == CHOOSE x \in S : \A y \in S : x <= y

Max(S) == CHOOSE x \in S : \A y \in S : x >= y

\* the packets of a PID in front of position end that carry PUSI
Starts(pid, end) == {i \in 1..(end - 1) : stream[i].pid = pid /\ stream[i].pusi}

\* the packets of a PID in front of position end
OfPID(pid, end) == {i \in 1..(end - 1) : stream[i].pid = pid}

\* where the group of a PID that is accumulating in front of position end
\* starts: at the PID's latest PUSI packet, or at its first packet when it
\* has had none
GroupStart(pid, end) ==
    IF Starts(pid, end) # {} THEN Max(Starts(pid, end)) ELSE Min(OfPID(pid, end))

\* the packets of the PID from there on, in arrival order
ExpectedGroup(pid, end) ==
    SelectSeq([i \in 1..Len(stream) |-> i],
              LAMBDA i : /\ i < end
                         /\ stream[i].pid = pid
                         /\ i >= GroupStart(pid, end))

\* e.cause is the packet whose arrival made the pool emit e.pkts, 0 for dump
EmittedRight(e) ==
    /\ e.pkts # <<>>
    /\ e.cause > 0 =>
           /\ e.cause <= pos
           /\ stream[e.cause].pusi
           /\ stream[e.cause].pid = stream[e.pkts[1]].pid
           /\ e.pkts = ExpectedGroup(stream[e.pkts[1]].pid, e.cause)
    /\ e.cause = 0 =>
           /\ pos = Len(stream)
           /\ e.pkts = ExpectedGroup(stream[e.pkts[1]].pid, Len(stream) + 1)

\* C9: the pool emits a group for a PID only when a packet with PUSI arrives
\* for that PID while a buffer is accumulating, or on dump at the end of the
\* stream; a packet without PUSI is appended to its PID's buffer and emits
\* nothing; an emitted group is exactly the packets of the PID since the
\* PID's previous PUSI, in arrival order, whatever other PIDs' packets came
\* in between.
C9_GroupsEmittedOnPUSI ==
    /\ \A n \in 1..Len(trace.emitted) : EmittedRight(trace.emitted[n])
    /\ \A i \in 1..pos :
           (stream[i].pusi /\ OfPID(stream[i].pid, i) # {})
               <=> \E n \in 1..Len(trace.emitted) : trace.emitted[n].cause = i
    /\ \A pid \in DOMAIN packetPool : packetPool[pid] = ExpectedGroup(pid, pos + 1)

\* a PUSI packet has made the pool emit the group A||B of a PUSI packet A and
\* a later packet B without PUSI, with a packet of another PID in between
C9_Reassembled ==
    \E n \in 1..Len(trace.emitted) :
        /\ trace.emitted[n].cause > 0
        /\ Len(trace.emitted[n].pkts) = 2
        /\ stream[trace.emitted[n].pkts[1]].pusi
        /\ ~stream[trace.emitted[n].pkts[2]].pusi
        /\ trace.emitted[n].pkts[2] = trace.emitted[n].pkts[1] + 2

\* the PUSI packets of the PID of packet fp behind fp
NextStarts(fp) ==
    {i \in (fp + 1)..Len(stream) : stream[i].pid = stream[fp].pid /\ stream[i].pusi}

\* when the group that starts with packet fp is complete: at the next PUSI
\* packet of its PID, or else at the end of the stream, lower PIDs first
Completion(fp) ==
    IF NextStarts(fp) # {} THEN Min(NextStarts(fp))
    ELSE Len(stream) + 1 + stream[fp].pid

\* the last packet of the group that starts with packet fp
FinalPacket(fp) ==
    Max({i \in fp..Len(stream) :
            /\ stream[i].pid = stream[fp].pid
            /\ \A j \in NextStarts(fp) : i < j})

\* C10, as stated: the units come out in the order in which the final packet
\* of each was consumed from the stream.
C10_InFinalPacketOrder ==
    \A i, j \in 1..Len(trace.returned) :
        i < j => FinalPacket(trace.returned[i].FirstPacket)
                     <= FinalPacket(trace.returned[j].FirstPacket)

\* C10, amended: the units come out in the order in which their groups were
\* completed; a group is completed by the next PUSI packet of its PID, and
\* the groups left at the end of the stream are completed then, in ascending
\* order of PID.
C10_InCompletionOrder ==
    \A i, j \in 1..Len(trace.returned) :
        i < j => Completion(trace.returned[i].FirstPacket)
                     <= Completion(trace.returned[j].FirstPacket)

\* units of two PIDs have been returned, the first from a group completed by
\* a PUSI packet, the second from a group with an earlier final packet that
\* was left to the dump
C10_Interleaved ==
    \E i, j \in 1..Len(trace.returned) :
        /\ i < j
        /\ trace.returned[i].PID # trace.returned[j].PID
        /\ NextStarts(trace.returned[i].FirstPacket) # {}
        /\ NextStarts(trace.returned[j].FirstPacket) = {}
        /\ FinalPacket(trace.returned[j].FirstPacket)
               < FinalPacket(trace.returned[i].FirstPacket)


\* ---- what a NextData call returns
\* a NextData call has returned
Returned == ~panicked /\ trace.phase \in {"midstream", "dump", "buffer"}

\* C24: every NextData call returns either a data unit and no error or no
\* data unit and an error; at the end of the stream, whatever parsing the
\* dumped groups came to, the call that has nothing left to return returns
\* ErrNoMorePackets.
C24_UnitOrError ==
    Returned =>
        /\ (ret.d # NilData /\ ret.err = NoErr) \/ (ret.d = NilData /\ ret.err # NoErr)
        /\ (trace.phase = "dump" /\ ret.d = NilData) => ret.err = ErrNoMorePackets

\* what NextData does: a unit never comes with an error, and a call that
\* comes to the end of the dump without a unit returns ErrNoMorePackets only
\* when it has dumped no group; otherwise it returns what ParseData has
\* returned for the last group dumped, nil when that group parsed into no
\* unit; the program map is that of the whole call, since no unit was
\* consumed
C24_LastDumpedGroupDecides ==
    Returned =>
        /\ ~(ret.d # NilData /\ ret.err # NoErr)
        /\ trace.phase \in {"midstream", "buffer"} => (ret.d = NilData <=> ret.err # NoErr)
        /\ (trace.phase = "dump" /\ ret.d = NilData) =>
              /\ DOMAIN packetPool = {}
              /\ ret.err = IF trace.parsed = <<>> THEN ErrNoMorePackets
                            ELSE ParseData(stream, trace.parsed[Len(trace.parsed)], optPacketsParser,
                                           programMap).err

\* at the end of the stream a call has dumped a group that parsed into no
\* unit and has returned neither a unit nor an error
C24_NilNilReturned ==
    /\ Returned
    /\ trace.phase = "dump"
    /\ trace.parsed # <<>>
    /\ pos = Len(stream)
    /\ DOMAIN packetPool = {}
    /\ ret = Call(NilData, NoErr)

---------------------------------------------------------------------------
(* Properties of the demuxer under cancellation, checked under SpecCtx.    *)
(* Once ctxErr is set every step that changes a variable is a NextData     *)
(* call.                                                                   *)

\* C18: if the demuxer's context is cancelled, a NextData call returns the
\* context's error, reads no packet from the source, and leaves the packet
\* pool, the data buffer and the program map unchanged.
C18_CancelledCallChangesNothing ==
    [][ctxErr # NoErr =>
          /\ ret'.d = NilData
          /\ ErrorsIs(ret'.err, ctxErr)
          /\ UNCHANGED <<pos, packetPool, dataBuffer, programMap>>]_vars

\* C18, amended: with the context cancelled, a NextData call that finds the
\* data buffer empty returns no unit and an error that wraps the context's
\* error, reads no packet and leaves the packet pool, the data buffer and
\* the program map unchanged; a call that finds a unit in the data buffer
\* returns that unit without an error and takes it off the data buffer,
\* reading no packet and leaving the packet pool and the program map
\* unchanged.
C18_CancelledCallServesBufferOnly ==
    [][ctxErr # NoErr =>
          IF dataBuffer = <<>>
          THEN /\ ret'.d = NilData
               /\ ret'.err = Errorf("astits: fetching next packet failed", ctxErr)
               /\ ErrorsIs(ret'.err, ctxErr)
               /\ ~panicked'
               /\ UNCHANGED <<pos, packetPool, dataBuffer, programMap>>
          ELSE /\ ret' = Call(dataBuffer[1], NoErr)
               /\ dataBuffer' = Tail(dataBuffer)
               /\ ~panicked'
               /\ UNCHANGED <<pos, packetPool, programMap>>]_vars

\* a call under a cancelled context has failed with the context's error
\* after an earlier call had served the last buffered unit; packets are
\* still unread and the pool holds the packets of an unfinished group
C18_CancelledWithPacketsLeft ==
    /\ ctxErr = ErrCanceled
    /\ trace.phase = "midstream"
    /\ ret = Call(NilData, Errorf("astits: fetching next packet failed", ErrCanceled))
    /\ dataBuffer = <<>>
    /\ Len(trace.returned) = 2
    /\ pos < Len(stream)
    /\ packetPool # NewPacketPool

---------------------------------------------------------------------------
(* Properties of the demuxer with a packets parser, checked under SpecOpt  *)

\* what the packets parser returns for the group of packets g
ParserResult(g) == callParser(optPacketsParser, g[1], stream[g[1]].pid)

\* the groups the pool has emitted that the packets parser claims and makes
\* a unit of, in the order of their emission
ClaimedGroups(emitted) ==
    SelectSeq(emitted, LAMBDA e : /\ ParserResult(e.pkts).skip
                                  /\ ParserResult(e.pkts).err = NoErr)

\* the units returned on the PIDs the packets parser claims
ClaimedUnits(returned) == SelectSeq(returned, LAMBDA d : d.PID \in optPacketsParser.skip)

\* the call ended on a group that the packets parser claims
EndsOnClaimed == /\ trace'.phase \in {"midstream", "dump"}
                 /\ trace'.parsed # <<>>
                 /\ ParserResult(LastParsed).skip

\* the call has returned what the packets parser has returned for the group
\* and nothing else has come of the group
ParserDecided(r) ==
    /\ programMap' = programMap
    /\ dataBuffer' = <<>>
    /\ IF r.err = NoErr THEN ret' = Call(r.ds[1], NoErr)
       ELSE IF trace'.phase = "midstream"
       THEN ret' = Call(NilData, Errorf("astits: building new data failed", r.err))
       ELSE ret' = Call(NilData, r.err)

\* C21: a configured packets parser is called on every completed group
\* before the default classification, in the packet loop and in the dump
\* loop alike, and when it says skip the result of ParseData is what the
\* parser returned and the group is not parsed as PSI or PES: a call that
\* ends on a claimed group returns the parser's unit or its error and
\* leaves the program map alone, and the units returned on claimed PIDs are
\* the parser's units of the claimed groups, one for one in the order the
\* pool has emitted them.
C21_CustomParserDecides ==
    [][/\ EndsOnClaimed => \A r \in {ParserResult(LastParsed)} : ParserDecided(r)
       /\ \A c \in {ClaimedGroups(trace'.emitted)} :
             ClaimedUnits(trace'.returned) =
                [k \in 1..Len(c) |-> ParserResult(c[k].pkts).ds[1]]]_vars

\* the parser claims every group; it was given a whole PAT completed by the
\* packet that followed it, then that packet's group dumped at the end of
\* the stream, and each call has returned the parser's unit
C21_ClaimedMidstreamAndDumped ==
    /\ optPacketsParser = PacketsParser({PIDPAT, PIDPES}, {})
    /\ stream = <<PacketTwoPATs, PacketTwoPATs>>
    /\ trace.phase = "dump"
    /\ Len(trace.emitted) = 2
    /\ trace.emitted[1].cause = 2
    /\ trace.emitted[2].cause = 0
    /\ trace.returned = <<CustomData(1, PIDPAT), CustomData(2, PIDPAT)>>
    /\ programMap = NewProgramMap

---------------------------------------------------------------------------
(* Properties of the demuxer on a rewound reader, checked under SpecRewind *)

\* the packets of the groups gs
PacketsIn(gs) == UNION {{g.pkts[i] : i \in 1..Len(g.pkts)} : g \in {gs[k] : k \in 1..Len(gs)}}

\* C30: Rewind empties the data buffer and replaces the packet pool by an
\* empty one, whether rewinding the reader fails or not, and leaves the
\* program map as it is; so the NextData calls after a Rewind return no unit
\* that was buffered, and hand on no group with a packet that was read,
\* before it: every group the pool emits and every unit returned since the
\* Rewind is made of packets behind the position the Rewind has left the
\* reader at.
C30_RewindResets ==
    [][/\ trace'.phase = "rewind" =>
             /\ dataBuffer' = <<>>
             /\ packetPool' = NewPacketPool
             /\ programMap' = programMap
             /\ pos' = IF res'.err = NoErr THEN 0 ELSE pos
       /\ pc' = "rewound" =>
             /\ \A i \in PacketsIn(trace'.emitted) : i > res'.at
             /\ \A k \in 1..Len(trace'.returned) : trace'.returned[k].FirstPacket > res'.at
             /\ \A k \in 1..Len(dataBuffer') : dataBuffer'[k].FirstPacket > res'.at
             /\ \A q \in DOMAIN packetPool' :
                   \A i \in 1..Len(packetPool'[q]) : packetPool'[q][i] > res'.at]_vars

\* a Rewind that failed on its reader was called with a unit in the data
\* buffer and a packet in the pool, after a PAT had filled the program map;
\* the call after it has read on and returned a unit
C30_RewoundMidstream ==
    /\ pc = "rewound"
    /\ res.err # NoErr
    /\ res.at = 2
    /\ stream[1] = PacketTwoPATs
    /\ stream[2] = PacketTwoPATs
    /\ DOMAIN programMap # {}
    /\ trace.phase = "midstream"
    /\ Len(trace.returned) = 1
    /\ trace.returned[1].FirstPacket = 3

---------------------------------------------------------------------------
(* Properties of parsing and serialising back, checked under SpecSer       *)

\* the PAT and PMT sections whose reserved bits are all ones
ReservedOnesSections == RoundTripSections \ {PATReservedZero}

\* those of them that have a syntax section (section length > 0)
SyntaxSections == ReservedOnesSections \ {<<\h00, \hB0, \h00>>}

\* the payload or the packet was parsed and written back without error and
\* the bytes written are those that were parsed
WrittenBack == out.r.err = NoErr /\ ~out.r.panic /\ out.r.b = arg

RoundTripOver(S) ==
    /\ (pc = "serialised" /\ fn = "parsePSIData" /\ arg \in PayloadsOf(S)
            /\ Len(out.r.b) = Len(arg))
          => WrittenBack
    /\ (pc = "serialised" /\ fn = "ParsePacket" /\ arg \in PacketsOf(S))
          => WrittenBack

\* C11: a PSI payload with pointer field 0 that holds PAT or PMT sections
\* with all reserved bits set, followed by 0xFF stuffing, comes back byte for
\* byte from parsePSIData and PSIData.Serialise into a buffer of its length,
\* and with the parsed packet header in front the 188-byte packet comes back.
C11_RoundTrip == RoundTripOver(ReservedOnesSections)

\* C11 for the sections that have a syntax section
C11_RoundTripWithSyntax == RoundTripOver(SyntaxSections)

\* a payload in which a section has no syntax section has been written back
C11_HeaderOnlyWritten ==
    /\ pc = "serialised"
    /\ fn = "parsePSIData"
    /\ arg = <<\h00, \h00, \hB0, \h00, \hFF, \hFF, \hFF, \hFF, \hFF>>
    /\ Len(out.r.b) = Len(arg)
    /\ out.r.err = NoErr
    /\ out.r.b # arg


\* ---- PSISection.Serialise
\* a section of a table type with a CRC32 has been written without error
SectionWritten ==
    /\ pc \in {"serialised", "reparsed"}
    /\ fn = "parsePSISection"
    /\ hasCRC32(res.s.Header.TableType)
    /\ out.r.err = NoErr
    /\ ~out.r.panic

\* the bytes Serialise has written
WrittenBytes == SubSeq(out.r.b, 1, out.r.n)

\* bs ends with the CRC32 of what precedes its last four bytes
EndsWithCRC32(bs) ==
    /\ Len(bs) >= 4
    /\ SubSeq(bs, Len(bs) - 3, Len(bs))
         = U32Bytes(computeCRC32(SubSeq(bs, 1, Len(bs) - 4)).o)

SectionSerialiseCalled == pc = "serialised" /\ fn = "parsePSISection"

\* the number of bytes the section takes when there is room for it
SectionSize == PSISectionSerialise(res.s, buf, Room(Len(arg[1]) + 8)).n

\* C29: PSISection.Serialise never indexes past the end of the buffer it is
\* given: a buffer too small for the 3-byte header, the syntax and, for the
\* table types that have one, the 4 bytes of the CRC32 makes it return
\* ErrNoRoomInBuffer.
C29_NoRoomIsAnError ==
    SectionSerialiseCalled =>
        /\ ~out.r.panic
        /\ Len(out.r.b) < SectionSize => out.r.err = ErrNoRoomInBuffer

\* what PSISection.Serialise does: it indexes past the end of the buffer
\* exactly when the buffer is longer than 3 bytes and has room for the syntax
\* but not for the CRC32 behind it; a buffer with less room than that is
\* answered with ErrNoRoomInBuffer, and one with room for all with no error
C29_PanicsWithoutRoomForCRC32 ==
    SectionSerialiseCalled =>
        /\ out.r.panic <=> /\ hasCRC32(res.s.Header.TableType)
                           /\ Len(out.r.b) > 3
                           /\ Len(out.r.b) >= SectionSize - 4
                           /\ Len(out.r.b) < SectionSize
        /\ (~out.r.panic /\ Len(out.r.b) < SectionSize) => out.r.err = ErrNoRoomInBuffer
        /\ (Len(out.r.b) >= SectionSize /\ Len(out.r.b) > 3) => out.r.err = NoErr

\* a PAT section of 16 bytes has been serialised into a buffer of 15 bytes:
\* header and syntax were written and the CRC32 did not fit
C29_CRC32PastTheEnd ==
    /\ SectionSerialiseCalled
    /\ res.s.Header.TableType = "PAT"
    /\ ~res.s.Syntax.isNil
    /\ SectionSize = Len(out.r.b) + 1
    /\ out.r.panic


\* ---- parseDescriptors and Descriptor.Serialise
\* parseDescriptors has returned the descriptors res.o without error
DescriptorsParsed ==
    /\ fn = "parseDescriptors"
    /\ pc \in {"parsed", "reused", "serialised"}
    /\ res.err = NoErr

\* the offset behind the tag and the length byte of the k-th descriptor of a
\* loop at offset off: the first one follows the two bytes of the loop
\* length, each other one the body of the one before
RECURSIVE BodyStart(_, _, _)
BodyStart(o, off, k) ==
    IF k = 1 THEN off + 2 + 2
    ELSE BodyStart(o, off, k - 1) + o[k - 1].Length + 2

\* the k-th descriptor's bytes in the input: tag, length, body
InputDescriptor(k) ==
    Bytes(arg[1], BodyStart(res.o, arg[2], k) - 2, res.o[k].Length + 2)

\* C13: for every descriptor of length L > 0 that parseDescriptors returns,
\* originalBytes is the L bytes behind its tag and length whatever the buffer
\* holds later on, and Descriptor.Serialise into a buffer of at least 2 + L
\* bytes writes the 2 + L bytes of the descriptor in the input and nothing else.
C13_OriginalBytesKept ==
    DescriptorsParsed =>
        /\ \A k \in 1..Len(res.o) :
              res.o[k].Length > 0 =>
                 SliceBytes(buf, res.o[k].originalBytes)
                   = Bytes(arg[1], BodyStart(res.o, arg[2], k), res.o[k].Length)
        /\ (pc = "serialised" /\ res.o[out.k].Length > 0
                /\ Len(out.r.b) >= res.o[out.k].Length + 2) =>
              /\ out.r.err = NoErr
              /\ out.r.b = InputDescriptor(out.k)
                            \o Room(Len(out.r.b) - res.o[out.k].Length - 2)

\* a descriptor whose decoder reads 1 of its 3 bytes has been written from its
\* originalBytes after the parsed buffer was overwritten
C13_WrittenAfterReuse ==
    /\ DescriptorsParsed
    /\ pc = "serialised"
    /\ buf # arg[1]
    /\ res.o[out.k].Tag = \h52
    /\ res.o[out.k].Length = 3
    /\ out.r.err = NoErr
    /\ out.r.b = <<\h52, 3, \h01, \h02, \h03, \hCC, \hCC>>


\* the sum of 2 + Length over the descriptors of o
RECURSIVE DescriptorsSize(_)
DescriptorsSize(o) ==
    IF o = <<>> THEN 0 ELSE 2 + Head(o).Length + DescriptorsSize(Tail(o))

\* the loop length declared in the two bytes at the start of the loop
DeclaredLength == Length12(arg[1], arg[2])

\* C14: when parseDescriptors returns without error, the sum of 2 + Length over
\* the descriptors it returns is the declared 12-bit loop length, and the
\* cursor is at the declared end of the loop.
C14_SizesSumToDeclaredLength ==
    DescriptorsParsed =>
        /\ DescriptorsSize(res.o) = DeclaredLength
        /\ res.off = arg[2] + 2 + DeclaredLength

\* what the loop of parseDescriptors does keep: it ends behind the first
\* descriptor that reaches the declared end, with the cursor behind that
\* descriptor
C14_EndsAtFirstDescriptorPastEnd ==
    DescriptorsParsed =>
        /\ res.off = arg[2] + 2 + DescriptorsSize(res.o)
        /\ DescriptorsSize(res.o) >= DeclaredLength
        /\ res.o # <<>> =>
              DescriptorsSize(SubSeq(res.o, 1, Len(res.o) - 1)) < DeclaredLength

\* a loop of declared length 3 whose only descriptor takes 4 bytes has been
\* parsed without error
C14_LastDescriptorOvershoots ==
    /\ DescriptorsParsed
    /\ arg = <<<<\hF0, \h03, \h80, \h02, \hAA, \hBB>>, 0>>
    /\ Len(res.o) = 1
    /\ res.off = 6


\* parseDescriptors has returned, or has got stuck behind, the descriptors
\* res.o
DescriptorsProcessed ==
    /\ fn = "parseDescriptors"
    /\ pc \in {"parsed", "reused", "serialised", "diverged"}

\* C15: the tag and the length of every descriptor that parseDescriptors has
\* processed are the two bytes in front of its body start, the body start of
\* the first descriptor being behind the loop length and that of each other
\* one 2 + L behind the body start of the one before, of length L; and a call
\* that returns without error leaves the cursor L behind the body start of
\* the last descriptor.  What the decoders have read does not enter.
C15_CursorAtDeclaredEnd ==
    DescriptorsProcessed =>
        /\ \A k \in 1..Len(res.o) :
              /\ res.o[k].Tag = arg[1][BodyStart(res.o, arg[2], k) - 1]
              /\ res.o[k].Length = arg[1][BodyStart(res.o, arg[2], k)]
        /\ (res.err = NoErr /\ res.o # <<>>) =>
              res.off = BodyStart(res.o, arg[2], Len(res.o)) + res.o[Len(res.o)].Length

\* the decoder of the first descriptor (AVC video, L = 1) has read 4 bytes,
\* that of the second (stream identifier, L = 3) 1 byte
C15_DecodersReadMoreAndLess ==
    /\ DescriptorsProcessed
    /\ pc = "parsed"
    /\ arg = <<<<\hF0, \h08, \h28, \h01, \h42, \h52, \h03, \h01, \h02, \h03>>, 0>>
    /\ res.err = NoErr
    /\ Len(res.o) = 2
    /\ newDescriptorAVCVideo(arg[1], Cursor(NoErr, 4)) = Cursor(NoErr, 8)
    /\ newDescriptorStreamIdentifier(arg[1], Cursor(NoErr, 7)) = Cursor(NoErr, 8)
    /\ res.off = 10

\* Descriptor.Serialise has been called on a parsed descriptor
DescriptorWritten == DescriptorsParsed /\ pc = "serialised"

\* C28: Descriptor.Serialise, when it succeeds, returns Length + 2 for every
\* Length in 0..255, and it returns ErrNoRoomInBuffer, the buffer untouched,
\* exactly when the buffer is shorter than Length + 2 bytes.
C28_ReturnsLengthPlusTwo ==
    DescriptorWritten =>
        /\ out.r.err \in {NoErr, ErrNoRoomInBuffer}
        /\ out.r.err = NoErr => out.r.n = res.o[out.k].Length + 2
        /\ out.r.err = ErrNoRoomInBuffer <=> Len(out.r.b) < res.o[out.k].Length + 2
        /\ out.r.err = ErrNoRoomInBuffer => out.r.b = Room(Len(out.r.b))

\* what Descriptor.Serialise does: the byte count is Length + 2 in 8 bits,
\* and a buffer of fewer than 3 bytes is too short for every descriptor
C28_ReturnsLengthPlusTwoInEightBits ==
    DescriptorWritten =>
        /\ out.r.err \in {NoErr, ErrNoRoomInBuffer}
        /\ out.r.err = NoErr => out.r.n = (res.o[out.k].Length + 2) % 256
        /\ out.r.err = ErrNoRoomInBuffer
              <=> (Len(out.r.b) < 3 \/ Len(out.r.b) < res.o[out.k].Length + 2)
        /\ out.r.err = ErrNoRoomInBuffer => out.r.n = 0 /\ out.r.b = Room(Len(out.r.b))
        /\ out.r.err = NoErr =>
              SubSeq(out.r.b, 1, 2) = <<res.o[out.k].Tag, res.o[out.k].Length>>

\* a descriptor of length 254 has been written in full, 256 bytes, and the
\* call has returned 0 bytes written and no error
C28_LengthWrapped ==
    /\ DescriptorWritten
    /\ res.o[out.k].Length = 254
    /\ out.r.err = NoErr
    /\ out.r.n = 0
    /\ SubSeq(out.r.b, 1, 256) = InputDescriptor(out.k)

\* ---- termination of parseDescriptors
\* C26: parseDescriptors returns on every input: every turn of the descriptor
\* loop and of the item loops of the variant decoders moves the cursor on or
\* ends with an error.
C26_ParseDescriptorsTerminates ==
    fn = "parseDescriptors" => pc # "diverged" /\ (pc = "parsed" => res.err # Diverges)

\* in the input there is a VBI data descriptor with a service whose ID is
\* none of those the decoder reads descriptor bytes for, its length above 0
HasUnreadVBIService ==
    \E p \in 1..(Len(arg[1]) - 3) :
        /\ arg[1][p] = \h45
        /\ \E q \in (p + 2)..(Len(arg[1]) - 1) :
              /\ arg[1][q] \notin VBIDataServiceIDs
              /\ arg[1][q + 1] > 0

\* what parseDescriptors does: only such a service keeps it from returning
C26_OnlyVBIDataLoopsForEver ==
    (fn = "parseDescriptors" /\ pc = "diverged") => HasUnreadVBIService

\* parseDescriptors has not returned from a VBI data descriptor with a
\* service of the reserved ID 0x09 and one descriptor byte
C26_ReservedServiceLoops ==
    /\ fn = "parseDescriptors"
    /\ pc = "diverged"
    /\ arg = <<<<\hF0, 5, \h45, 3, \h09, 1, \h25>>, 0>>
    /\ res.err = Diverges

\* ---- what the variant decoders read
\* the cursor the decoder of the k-th descriptor is left at; the decoders read
\* forwards from the body start, each read following the one before
DecoderEnd(k) ==
    decodeDescriptor(arg[1], res.o[k].Tag, res.o[k].Length,
                     Cursor(NoErr, BodyStart(res.o, arg[2], k)),
                     BodyStart(res.o, arg[2], k) + res.o[k].Length).off

\* C27: while parseDescriptors decodes a descriptor of declared length L, the
\* variant decoder reads only bytes of the L-byte body: nothing it decodes
\* comes from a byte behind the descriptor's declared end.
C27_DecodersReadTheBodyOnly ==
    (DescriptorsParsed /\ pc = "parsed") =>
        \A k \in 1..Len(res.o) :
            res.o[k].Length > 0 =>
                DecoderEnd(k) <= BodyStart(res.o, arg[2], k) + res.o[k].Length

\* what holds: the decoders that are given the declared end (the user defined
\* and the unknown tags, ISO 639 language and audio type) read the body and
\* no more
C27_RawDecodersReadTheBody ==
    (DescriptorsParsed /\ pc = "parsed") =>
        \A k \in 1..Len(res.o) :
            (res.o[k].Length > 0 /\ res.o[k].Tag \in {\h0A, \h7C} \cup (\h80..\hFE)) =>
                DecoderEnd(k) = BodyStart(res.o, arg[2], k) + res.o[k].Length

\* a service descriptor of declared length 2 has been decoded without error,
\* its decoder having read the 3 bytes behind the descriptor as the provider
\* name and the length of the service name
C27_ServiceReadsPastEnd ==
    /\ DescriptorsParsed
    /\ pc = "parsed"
    /\ arg = <<<<\hF0, 4, \h48, 2, \h01, 2, \h41, \h42, \h00>>, 0>>
    /\ Len(res.o) = 1
    /\ res.o[1].Length = 2
    /\ res.off = 6
    /\ newDescriptorService(arg[1], Cursor(NoErr, 4)) = Cursor(NoErr, 9)


\* ---- Packet.Serialise after parsePacket

\* the parsed packet was serialised into a buffer of the packet's size
PacketWritten == /\ fn = "parsePacket"
                 /\ pc \in {"serialised", "reparsed"}
                 /\ Len(out.r.b) = Len(arg)

\* C22: a valid 188-byte packet, with or without adaptation field and with
\* 0xFF stuffing in it, parses; serialising the parsed packet into a buffer
\* of 188 bytes gives the packet byte for byte, and parsing what was written
\* gives the same packet structure.
C22_PacketRoundTrip ==
    (fn = "parsePacket" /\ arg \in ValidPackets) =>
        /\ pc # "call" => res.err = NoErr
        /\ PacketWritten => out.r = SerialiseResult(188, NoErr, arg)
        /\ pc = "reparsed" => out.again = res

\* parse, serialise, parse gives the parsed packet also where the bytes are
\* not reproduced: reserved bits that are not ones, stuffing that is not 0xFF
C22_NonCanonicalBytesNotKept ==
    (PacketWritten /\ arg \in NonCanonicalPackets) =>
        /\ out.r.err = NoErr
        /\ out.r.b # arg
        /\ pc = "reparsed" => out.again = res

\* the packet of TestParseSerialisePacketWithAdaptationField was parsed into
\* an adaptation field of 145 bytes without fields and a payload of 38,
\* written back and parsed again
C22_StuffedPacketRoundTrip ==
    /\ PacketWritten
    /\ pc = "reparsed"
    /\ arg = PacketStuffedPMT
    /\ res.p.Header.HasAdaptationField
    /\ res.p.AdaptationField.Length = 145
    /\ ~res.p.AdaptationField.HasPCR
    /\ Len(res.p.Payload) = 38
    /\ out.r.b = arg

===========================================================================
